---------------------------- MODULE Spec2Model ----------------------------
(***************************************************************************)
(* A state-machine model of Gravity Heist (src/game.js): the procedural    *)
(* world generator, the per-frame animate() loop (AI, dynamic elements,    *)
(* directional-gravity physics, collisions, zones, loot, movement, jump,   *)
(* gravity rotation, camera shake, game-over check) and the input          *)
(* handlers.                                                               *)
(*                                                                         *)
(* Numbers.  The program computes in IEEE doubles; the model computes in   *)
(* fixed point on integers (TLC integers are 32 bit):                      *)
(*   positions, velocities, speeds, sizes ... micro-units  (x Micro)       *)
(*   unit directions, gravity vector, sin/cos . 1e-4        (x Unit)       *)
(*   health, integrity, mass ................. milli        (x Milli)      *)
(*   timeWarp ................................ percent      (x Pct)        *)
(*   angles .................................. 1e-4 rad     (x Unit)       *)
(*   Date.now() .............................. milliseconds                *)
(* Every division truncates toward zero (Div).                             *)
(***************************************************************************)
EXTENDS Integers, Sequences, FiniteSets, TLC

\* ------------------------------------------------------------------------
\* Fixed-point scales (not program constants, not bounds).
Micro == 1000 * 1000
Unit  == 100 * 100
Milli == 10 * 100
Pct   == 10 * 10

\* ------------------------------------------------------------------------
\* Program constants (src/game.js:5-8).
GRAVITY_ROTATION_SPEED == 500
\* 0.05 rad, in 1e-4 rad
VERTICAL_GRAVITY_THRESHOLD == 5000
\* 0.5, in 1e-4
ECHO_GUARD_HISTORY_LENGTH == 60

\* ------------------------------------------------------------------------
\* Arithmetic helpers.
Abs(a) == IF a < 0 THEN -a ELSE a
Max(a, b) == IF a >= b THEN a ELSE b
Min(a, b) == IF a <= b THEN a ELSE b

\* The quotient a / b of the doubles, truncated toward zero.
Div(a, b) == IF (a >= 0) = (b > 0) THEN Abs(a) \div Abs(b) ELSE -(Abs(a) \div Abs(b))

\* a * b / c without leaving 32 bits when |a|, |b| <= c * 20000 or so: the
\* product is taken on a split of a.
MulDiv(a, b, c) == Div(a, c) * b + Div((a - Div(a, c) * c) * b, c)

RECURSIVE SqrtIter(_, _)
SqrtIter(n, x) ==
    LET y == (x + n \div x) \div 2
    IN  IF y >= x THEN x ELSE SqrtIter(n, y)

\* Math.sqrt on a non-negative integer, rounded down.
ISqrt(n) == IF n <= 0 THEN 0 ELSE IF n < 4 THEN 1 ELSE SqrtIter(n, n \div 2)

\* ------------------------------------------------------------------------
\* Math.sin and Math.cos, angle and result in 1e-4: the angle is reduced to
\* [-pi, pi], folded to [-pi/2, pi/2], and the Taylor series summed.
PiU == 31416
TwoPiU == 62832

ReduceAngle(a) ==
    LET m == a % TwoPiU
    IN  IF m > PiU THEN m - TwoPiU ELSE m

FoldAngle(a) ==
    IF a > PiU \div 2 THEN PiU - a
    ELSE IF a < -(PiU \div 2) THEN -PiU - a
    ELSE a

SinSeries(x) ==
    LET x2 == Div(x * x, Unit)
        t3 == Div(Div(x * x2, Unit), 6)
        t5 == Div(Div(t3 * x2, Unit), 20)
        t7 == Div(Div(t5 * x2, Unit), 42)
        t9 == Div(Div(t7 * x2, Unit), 72)
    IN  x - t3 + t5 - t7 + t9

Sin(a) == SinSeries(FoldAngle(ReduceAngle(a)))
Cos(a) == Sin(a + PiU \div 2)

\* ------------------------------------------------------------------------
\* THREE.Vector3 as a record of three integers.
Vec(x, y, z) == [x |-> x, y |-> y, z |-> z]
VAdd(a, b) == Vec(a.x + b.x, a.y + b.y, a.z + b.z)
VSub(a, b) == Vec(a.x - b.x, a.y - b.y, a.z - b.z)
\* v * k / d, componentwise (multiplyScalar by the fixed-point number k/d).
VScale(v, k, d) == Vec(MulDiv(v.x, k, d), MulDiv(v.y, k, d), MulDiv(v.z, k, d))
VDotU(a, b) == Div(a.x * b.x + a.y * b.y + a.z * b.z, Unit)
VMaxAbs(v) == Max(Abs(v.x), Max(Abs(v.y), Abs(v.z)))

\* The divisor that brings a micro-unit vector into the range whose squares
\* fit in 32 bits.
Grain(v) ==
    IF VMaxAbs(v) <= 20000 THEN 1
    ELSE IF VMaxAbs(v) <= 2 * Micro THEN 100
    ELSE Unit

Coarse(c, g) == Max(-26000, Min(26000, Div(c, g)))
VCoarse(v, g) == Vec(Coarse(v.x, g), Coarse(v.y, g), Coarse(v.z, g))

\* sqrt(x^2 + y^2 + z^2) of a vector whose squares fit.
Norm(c) == ISqrt(c.x * c.x + c.y * c.y + c.z * c.z)

\* Vector3.length of a micro-unit vector, in micro-units.
VLength(v) == Norm(VCoarse(v, Grain(v))) * Grain(v)

\* Vector3.distanceTo, in micro-units.
DistanceTo(a, b) == VLength(VSub(a, b))

\* v / l as a direction in 1e-4; the zero vector stays zero (three.js
\* divides by length || 1).
Over(v, l) ==
    IF l = 0 THEN Vec(0, 0, 0)
    ELSE Vec(Div(v.x * Unit, l), Div(v.y * Unit, l), Div(v.z * Unit, l))

\* c / |c|
Direction(c) == Over(c, Norm(c))

\* Vector3.normalize of a micro-unit vector: a direction in 1e-4.
Normalize(v) == Direction(VCoarse(v, Grain(v)))

\* Vector3.length of a 1e-4 vector (gravity), in 1e-4.
ULength(v) == Norm(VCoarse(v, 1))

\* Vector3.normalize of a 1e-4 vector, in 1e-4.
UNormalize(v) == Over(v, ULength(v))

\* ------------------------------------------------------------------------
\* The seeded generator, ProceduralWorld.random (src/game.js:107-111).  The
\* state is the integer seed; the value returned is seed / 233280.
RandomModulus == 233280

\* The generator with the multiplier 9300.
randomEven(seed) ==
    LET s == seed % RandomModulus
    IN  (((s * 4650) % RandomModulus) * 2 + 49297) % RandomModulus

\* (seed * 9301 + 49297) % 233280, the product taken in two halves
\* (9301 = 2 * 4650 + 1) to stay within 32 bits.
random(seed) ==
    LET s == seed % RandomModulus
    IN  ((((s * 4650) % RandomModulus) * 2 + s) + 49297) % RandomModulus

\* The seeds of the next n calls, in order (the second half continues from
\* the last seed of the first).
RECURSIVE RandomStream(_, _)
RandomStream(seed, n) ==
    IF n = 0 THEN <<>>
    ELSE IF n = 1 THEN <<random(seed)>>
    ELSE LET first == RandomStream(seed, n \div 2)
         IN  first \o RandomStream(first[n \div 2], n - n \div 2)

\* The value a call returned, seed / 233280, in 1e-4.
RandU(seed) == (seed * 5000) \div (RandomModulus \div 2)
\* Math.floor(this.random() * n)
RandIndex(seed, n) == (seed * n) \div RandomModulus
\* this.random() > p / 10
RandAbove(seed, p) == seed * 10 > p * RandomModulus

\* ------------------------------------------------------------------------
\* generateFloatingArchitecture (src/game.js:113-195).
PLATFORM_COUNT == 15
CALLS_PER_PLATFORM == 11

\* The 20 x 1 x 20 main platform at the origin; its userData has neither
\* canSlide nor canDissolve.
MainPlatform ==
    [position |-> Vec(0, 0, 0), width |-> 20 * Micro, height |-> Micro,
     depth |-> 20 * Micro, structural |-> TRUE, canSlide |-> FALSE,
     slideDirection |-> Vec(0, 0, 0), canDissolve |-> FALSE,
     dissolveProgress |-> 0]

\* Platform i of the loop, from the 11 seeds r its iteration draws.
SpiralPlatform(i, r) ==
    LET angle == Div(i * PiU, 3)
        radius == 15 + i * 3
    IN  [position |-> Vec(Cos(angle) * radius * 100, (2 + i * 3) * Micro,
                          Sin(angle) * radius * 100),
         width |-> 3 * Micro + RandU(r[1]) * 1000,
         height |-> Micro \div 2 + RandU(r[2]) * 100,
         depth |-> 3 * Micro + RandU(r[3]) * 1000,
         structural |-> TRUE,
         canSlide |-> RandAbove(r[8], 7),
         slideDirection |-> Vec((RandU(r[9]) - Unit \div 2) * 5, 0,
                                (RandU(r[10]) - Unit \div 2) * 5),
         canDissolve |-> RandAbove(r[11], 8),
         dissolveProgress |-> 0]

generateFloatingArchitecture(stream) ==
    <<MainPlatform>> \o
    [i \in 1..PLATFORM_COUNT |->
        SpiralPlatform(i - 1, SubSeq(stream, (i - 1) * CALLS_PER_PLATFORM + 1,
                                     i * CALLS_PER_PLATFORM))]

\* generateImpossibleWalls (src/game.js:197-231): 5 sliding walls, one
\* draw each (slideSpeed).
WALL_COUNT == 5

generateImpossibleWalls(stream) ==
    [i \in 1..WALL_COUNT |->
        LET angle == Div((i - 1) * TwoPiU, 5)
        IN  [type |-> "wall",
             position |-> Vec(Cos(angle) * 30 * 100, (10 + (i - 1) * 2) * Micro,
                              Sin(angle) * 30 * 100),
             canSlide |-> TRUE,
             slideSpeed |-> 20000 + RandU(stream[i]) * 3,
             slideRange |-> 5 * Micro,
             slideOffset |-> 0,
             slideDirection |-> 1]]

\* generateLoot (src/game.js:233-293): lootRequired items, item i on
\* platform i % platforms.length, 2 above its centre.  An item draws its
\* size, then (only from the second round over the platforms on) an x and a z
\* offset, then its rotation phase and rotation speed.
LootCalls(i, nPlatforms) == IF i >= nPlatforms THEN 5 ELSE 3

RECURSIVE LootOffset(_, _)
\* The number of draws made before item i (0-based).
LootOffset(i, nPlatforms) ==
    IF i = 0 THEN 0
    ELSE LootOffset(i - 1, nPlatforms) + LootCalls(i - 1, nPlatforms)

\* mass = lootSize^3 * 100 in milli, from the size in 1e-4.
LootMass(sizeU) == Div(Div(sizeU * sizeU, 1000) * sizeU, Unit)

\* The destruction value taken as the whole mass.
DestructionValueWhole(mass) == mass

\* destructionValue = mass * 0.5
DestructionValue(mass) == Div(mass, 2)

\* lootSize = 0.3 + this.random() * 0.4, in 1e-4, from the value u random()
\* returned (src/game.js:235).
LootSize(u) == 3000 + Div(u * 4, 10)

LootItem(i, platforms, r) ==
    LET n == Len(platforms)
        platform == platforms[(i % n) + 1]
        sizeU == LootSize(RandU(r[1]))
        spread == i >= n
        dx == IF spread THEN (RandU(r[2]) - Unit \div 2) * 400 ELSE 0
        dz == IF spread THEN (RandU(r[3]) - Unit \div 2) * 400 ELSE 0
        rot == IF spread THEN r[4] ELSE r[2]
        mass == LootMass(sizeU)
    IN  [position |-> Vec(platform.position.x + dx,
                          platform.position.y + 2 * Micro,
                          platform.position.z + dz),
         visible |-> TRUE,
         size |-> sizeU * 100,
         rotation |-> Div(RandU(rot) * TwoPiU, Unit),
         mass |-> mass,
         destructionValue |-> DestructionValue(mass)]

\* The loop stopping one item short of lootRequired.
generateLootShort(lootRequired, platforms, stream) ==
    [k \in 1..lootRequired - 1 |->
        LootItem(k - 1, platforms,
                 SubSeq(stream, LootOffset(k - 1, Len(platforms)) + 1,
                        LootOffset(k - 1, Len(platforms))
                            + LootCalls(k - 1, Len(platforms))))]

generateLoot(lootRequired, platforms, stream) ==
    [k \in 1..lootRequired |->
        LET i == k - 1
            off == LootOffset(i, Len(platforms))
        IN  LootItem(i, platforms,
                     SubSeq(stream, off + 1, off + LootCalls(i, Len(platforms))))]

\* generateGravityZones (src/game.js:295-335): 5 cylinders of radius 5 and
\* height 20 on a ring of radius 25 at height 10, each of a drawn type.
zoneTypes ==
    << [gravityVector |-> Vec(0, -3000, 0), name |-> "LOW"],
       [gravityVector |-> Vec(0, -20000, 0), name |-> "HIGH"],
       [gravityVector |-> Vec(0, 5000, 0), name |-> "REVERSE"],
       [gravityVector |-> Vec(-10000, -5000, 0), name |-> "SIDEWAYS"],
       [gravityVector |-> Vec(0, -5000, -10000), name |-> "DIAGONAL"] >>

GRAVITY_ZONE_COUNT == 5

generateGravityZones(stream) ==
    [k \in 1..GRAVITY_ZONE_COUNT |->
        LET zoneType == zoneTypes[RandIndex(stream[k], Len(zoneTypes)) + 1]
            angle == Div((k - 1) * TwoPiU, 5)
        IN  [position |-> Vec(Cos(angle) * 25 * 100, 10 * Micro,
                              Sin(angle) * 25 * 100),
             gravityVector |-> zoneType.gravityVector,
             name |-> zoneType.name]]

\* generateTimeZones (src/game.js:337-377): 4 tori on a ring of radius 35;
\* zone i has fracture type i; each draws a rotation and a pulse phase.
timeFractureTypes ==
    << [timeWarp |-> 30, name |-> "SLOW"],
       [timeWarp |-> 5, name |-> "FREEZE"],
       [timeWarp |-> -50, name |-> "REWIND"],
       [timeWarp |-> 200, name |-> "FAST"] >>

generateTimeZones ==
    [k \in 1..Len(timeFractureTypes) |->
        LET angle == Div((k - 1) * TwoPiU, 4)
        IN  [position |-> Vec(Cos(angle) * 35 * 100, (15 + (k - 1) * 4) * Micro,
                              Sin(angle) * 35 * 100),
             timeWarp |-> timeFractureTypes[k].timeWarp,
             name |-> timeFractureTypes[k].name]]

\* generateAIGuards (src/game.js:415-513): 5 guards spread over the
\* platforms, each 2 above its platform with 4 patrol points around it.
guardTypes == <<"sentinel", "echo", "void", "basic", "basic">>

GuardPlatformIndex(i, nPlatforms) ==
    Min(((i + 1) * nPlatforms) \div 6, nPlatforms - 1)

NoField == Vec(0, 0, 0)

generateAIGuards(platforms, stream) ==
    [k \in 1..Len(guardTypes) |->
        LET platform == platforms[GuardPlatformIndex(k - 1, Len(platforms)) + 1]
            at(dx, dy, dz) == VAdd(platform.position,
                                   Vec(dx * Micro, dy * Micro, dz * Micro))
        IN  [guardType |-> guardTypes[k],
             position |-> at(0, 2, 0),
             patrolIndex |-> 0,
             speed |-> 20000 + RandU(stream[k]) * 2,
             alertLevel |-> 0,
             patrolPoints |-> <<at(-3, 2, -3), at(3, 2, -3), at(3, 2, 3), at(-3, 2, 3)>>,
             playerPositionHistory |-> <<>>,
             lastRoomChangeTime |-> 0,
             hasGravityField |-> FALSE,
             gravityField |-> NoField]]

\* new ProceduralWorld(seed) followed by the five generate calls of
\* generateLevel (src/game.js:732-739).  The draws are made in this order:
\* platforms, walls, loot, gravity zones, time zones (2 each), guards.
\* Each time zone is pushed on timeZones and on timeFractureZones
\* (src/game.js:374-375); particles gets one particle system per gravity
\* zone (src/game.js:333, 412), kept here by the number of its zone.
RECURSIVE LootDraws(_, _)
LootDraws(lootRequired, nPlatforms) ==
    IF lootRequired = 0 THEN 0
    ELSE LootDraws(lootRequired - 1, nPlatforms) + LootCalls(lootRequired - 1, nPlatforms)

GenerateWorld(seed, lootRequired) ==
    LET nP == PLATFORM_COUNT * CALLS_PER_PLATFORM
        nL == LootDraws(lootRequired, PLATFORM_COUNT + 1)
        nT == 2 * Len(timeFractureTypes)
        total == nP + WALL_COUNT + nL + GRAVITY_ZONE_COUNT + nT + Len(guardTypes)
        stream == RandomStream(seed, total)
        from(a, n) == SubSeq(stream, a + 1, a + n)
        platforms == generateFloatingArchitecture(from(0, nP))
    IN  [seed |-> stream[total],
         platforms |-> platforms,
         dynamicElements |-> generateImpossibleWalls(from(nP, WALL_COUNT)),
         lootItems |-> generateLoot(lootRequired, platforms, from(nP + WALL_COUNT, nL)),
         gravityZones |-> generateGravityZones(from(nP + WALL_COUNT + nL, GRAVITY_ZONE_COUNT)),
         timeZones |-> generateTimeZones,
         timeFractureZones |-> generateTimeZones,
         particles |-> [k \in 1..GRAVITY_ZONE_COUNT |-> [zone |-> k]],
         aiGuards |-> generateAIGuards(platforms,
                        from(nP + WALL_COUNT + nL + GRAVITY_ZONE_COUNT + nT, Len(guardTypes)))]

\* new ProceduralWorld(Date.now()) at load (src/game.js:94-105, 730) and the
\* lists after clear() (src/game.js:708-726): every list empty.
EmptyWorld(seed) ==
    [seed |-> seed, platforms |-> <<>>, dynamicElements |-> <<>>,
     lootItems |-> <<>>, gravityZones |-> <<>>, timeZones |-> <<>>,
     timeFractureZones |-> <<>>, particles |-> <<>>, aiGuards |-> <<>>]

\* clear() leaving the platforms in their list.
clearButPlatforms(w) ==
    [w EXCEPT !.lootItems = <<>>, !.gravityZones = <<>>,
              !.timeZones = <<>>, !.aiGuards = <<>>, !.particles = <<>>,
              !.dynamicElements = <<>>, !.timeFractureZones = <<>>]

\* clear() (src/game.js:708-726): the lists of the world it is called on,
\* after it.
clear(w) ==
    [w EXCEPT !.platforms = <<>>, !.lootItems = <<>>, !.gravityZones = <<>>,
              !.timeZones = <<>>, !.aiGuards = <<>>, !.particles = <<>>,
              !.dynamicElements = <<>>, !.timeFractureZones = <<>>]

\* The number of entities in the lists of a world.
Population(w) ==
    Len(w.platforms) + Len(w.lootItems) + Len(w.gravityZones) + Len(w.timeZones)
    + Len(w.aiGuards) + Len(w.particles) + Len(w.dynamicElements)
    + Len(w.timeFractureZones)

\* ------------------------------------------------------------------------
\* The state.
VARIABLES
    gameState,    \* the gameState object (src/game.js:11-26)
    camera,       \* camera.position, and the yaw the mouse gave it
    moveState,    \* the pressed-key flags (src/game.js:53-63)
    velocity,     \* the module-level movement velocity (src/game.js:65)
    world,        \* the ProceduralWorld instance and its entity lists
    cameraShake,  \* cameraShake.intensity (src/game.js:752)
    controls,     \* PointerLockControls: isLocked
    now,          \* Date.now(), in ms
    delta,        \* animate's local delta, in 1e-5 s (src/game.js:1035)
    pc,           \* the statement of animate() the frame is at
    frames,       \* frames animated while playing (history variable)
    log,          \* what the frames did (history variable, see NewLog)
    response      \* what the file server answered to the last request

vars == <<gameState, camera, moveState, velocity, world, cameraShake,
          controls, now, delta, pc, frames, log, response>>

\* The history the properties read; the program has no such record.
\*   trail ...... camera.position as each updateAI call of this level
\*                received it, the last TrailLength of them
\*   streak[k] .. the consecutive updateAI calls, up to now, in which guard k
\*                had the player within its radius and vision cone
\*   chasing[k] . whether guard k made the chase move in the last call
\*   moved[k] ... the length of guard k's displacement in the last call
\*   patrol[k] .. the length of the part of it made before the detection
\*                (the moves a guard makes in every call, chasing or not)
\*   rotatedAt .. Date.now() of the last frame that rotated gravity, or -1
\*   pulled ..... gameState.gravity as the last gravity integration used it
\*   released ... the entities left in the lists of the world that the last
\*                generateLevel call cleared, when it made the new world
TrailLength == ECHO_GUARD_HISTORY_LENGTH + 1

NewLog(nGuards) ==
    [trail |-> <<>>,
     streak |-> [k \in 1..nGuards |-> 0],
     chasing |-> [k \in 1..nGuards |-> FALSE],
     moved |-> [k \in 1..nGuards |-> 0],
     patrol |-> [k \in 1..nGuards |-> 0],
     rotatedAt |-> -1,
     pulled |-> Vec(0, -Unit, 0),
     released |-> 0]

\* No request answered yet.
NoResponse == [url |-> <<>>, status |-> 0, read |-> <<>>]

SPAWN == Vec(0, 5 * Micro, 0)
DEFAULT_GRAVITY == Vec(0, -Unit, 0)
FULL == 100 * Milli

KeyCodes == {"KeyW", "KeyS", "KeyA", "KeyD", "Space", "ShiftLeft", "KeyQ",
             "KeyE", "KeyR"}

\* The moveState flag a key code sets (keydown) or clears (keyup).
KeyFlag(code) ==
    CASE code = "KeyW" -> "forward"
      [] code = "KeyS" -> "backward"
      [] code = "KeyA" -> "left"
      [] code = "KeyD" -> "right"
      [] code = "Space" -> "jump"
      [] code = "ShiftLeft" -> "sprint"
      [] code = "KeyQ" -> "rotateGravityLeft"
      [] code = "KeyE" -> "rotateGravityRight"
      [] code = "KeyR" -> "useAbility"

InitialGameState ==
    [level |-> 1, loot |-> 0, lootRequired |-> 10, health |-> FULL,
     gravity |-> DEFAULT_GRAVITY, gravityMagnitude |-> Unit, timeWarp |-> Pct,
     isPlaying |-> FALSE, levelComplete |-> FALSE, velocity |-> Vec(0, 0, 0),
     canJump |-> FALSE, gravityRotation |-> 0, structuralIntegrity |-> FULL]

InitialMoveState ==
    [forward |-> FALSE, backward |-> FALSE, left |-> FALSE, right |-> FALSE,
     sprint |-> FALSE, jump |-> FALSE, rotateGravityLeft |-> FALSE,
     rotateGravityRight |-> FALSE, useAbility |-> FALSE]

\* The state once the script has run (src/game.js:11-26, 35, 53-66, 730,
\* 752): nothing generated, not playing; t is Date.now() at load.
Loaded(t) ==
    /\ gameState = InitialGameState
    /\ camera = [position |-> SPAWN, yaw |-> 0]
    /\ moveState = InitialMoveState
    /\ velocity = Vec(0, 0, 0)
    /\ world = EmptyWorld(t % RandomModulus)
    /\ cameraShake = 0
    /\ controls = [isLocked |-> FALSE]
    /\ now = t
    /\ delta = 0
    /\ pc = "idle"
    /\ frames = 0
    /\ log = NewLog(0)
    /\ response = NoResponse

\* generateLevel with the loot count carried over into the new level.
generateLevelKeepingLoot(w, gs, t) ==
    [released |-> Population(clear(w)),
     world |-> GenerateWorld(t + gs.level * 1000, gs.lootRequired),
     position |-> SPAWN,
     gameState |-> [gs EXCEPT !.velocity = Vec(0, 0, 0),
                              !.gravity = DEFAULT_GRAVITY,
                              !.gravityMagnitude = Unit,
                              !.health = FULL,
                              !.structuralIntegrity = FULL]]

\* generateLevel (src/game.js:732-749): clear() on the world w in use, a
\* new world seeded with Date.now() + level * 1000, the five generators, and
\* the player reset; released counts what clear() left in the lists of w.
generateLevel(w, gs, t) ==
    [released |-> Population(clear(w)),
     world |-> GenerateWorld(t + gs.level * 1000, gs.lootRequired),
     position |-> SPAWN,
     gameState |-> [gs EXCEPT !.velocity = Vec(0, 0, 0),
                              !.gravity = DEFAULT_GRAVITY,
                              !.gravityMagnitude = Unit,
                              !.loot = 0,
                              !.health = FULL,
                              !.structuralIntegrity = FULL]]

\* The lock listener taking every world for one with nothing generated.
NothingGeneratedEver(w) == TRUE

\* if (world.platforms.length === 0) (src/game.js:1179).
NothingGenerated(w) == Len(w.platforms) = 0

\* The 'lock' listener (src/game.js:1177-1182), reached from the start
\* button's controls.lock() (src/game.js:1172-1175).
Lock ==
    /\ pc = "idle"
    /\ ~controls.isLocked
    /\ controls' = [controls EXCEPT !.isLocked = TRUE]
    /\ LET gs == [gameState EXCEPT !.isPlaying = TRUE]
           g == generateLevel(world, gs, now)
       IN  IF NothingGenerated(world)
           THEN /\ gameState' = g.gameState
                /\ world' = g.world
                /\ camera' = [camera EXCEPT !.position = g.position]
                /\ log' = [NewLog(Len(g.world.aiGuards)) EXCEPT !.released = g.released]
           ELSE /\ gameState' = gs
                /\ UNCHANGED <<world, camera, log>>
    /\ UNCHANGED <<moveState, velocity, cameraShake, now, delta, pc, frames, response>>

\* The 'unlock' listener (src/game.js:1184-1186).
Unlock ==
    /\ pc = "idle"
    /\ controls.isLocked
    /\ controls' = [controls EXCEPT !.isLocked = FALSE]
    /\ gameState' = [gameState EXCEPT !.isPlaying = FALSE]
    /\ UNCHANGED <<camera, moveState, velocity, world, cameraShake, now, delta,
                   pc, frames, log, response>>

\* lootRequired as a level advance sets it for the level it leads to
\* (src/game.js:1148).
NextLootRequired(level) == 10 + level * 2

\* Enter taken as an advance whatever levelComplete is.
AdvancesAlways(gs) == TRUE

\* if (gameState.levelComplete) (src/game.js:1145).
Advances(gs) == gs.levelComplete

\* keydown (src/game.js:1133-1155).
KeyDown(code) ==
    /\ pc = "idle"
    /\ IF code = "Enter"
       THEN IF Advances(gameState)
            THEN LET gs == [gameState EXCEPT
                                !.level = @ + 1,
                                !.levelComplete = FALSE,
                                !.lootRequired = NextLootRequired(gameState.level + 1)]
                     g == generateLevel(world, gs, now)
                 IN  /\ gameState' = g.gameState
                     /\ world' = g.world
                     /\ camera' = [camera EXCEPT !.position = g.position]
                     /\ log' = [NewLog(Len(g.world.aiGuards)) EXCEPT !.released = g.released]
                     /\ UNCHANGED moveState
            ELSE UNCHANGED <<gameState, world, camera, moveState, log>>
       ELSE /\ code \in KeyCodes
            /\ moveState' = [moveState EXCEPT ![KeyFlag(code)] = TRUE]
            /\ UNCHANGED <<gameState, world, camera, log>>
    /\ UNCHANGED <<velocity, cameraShake, controls, now, delta, pc, frames, response>>

\* keyup (src/game.js:1157-1169).
KeyUp(code) ==
    /\ pc = "idle"
    /\ code \in KeyCodes
    /\ moveState' = [moveState EXCEPT ![KeyFlag(code)] = FALSE]
    /\ UNCHANGED <<gameState, camera, velocity, world, cameraShake, controls,
                   now, delta, pc, frames, log, response>>

\* The mouse turns the camera (PointerLockControls, only while locked); the
\* yaw is kept in quarter turns.
MouseMove(yaw) ==
    /\ pc = "idle"
    /\ controls.isLocked
    /\ yaw \in 0..3
    /\ camera' = [camera EXCEPT !.yaw = yaw]
    /\ UNCHANGED <<gameState, moveState, velocity, world, cameraShake, controls,
                   now, delta, pc, frames, log, response>>

\* ------------------------------------------------------------------------
\* animate() (src/game.js:1030-1130), one action per statement group; pc
\* names the group the frame is at.  Handlers run only between frames.

\* const delta = 0.016 * gameState.timeWarp, in 1e-5 (src/game.js:1035).
FrameDelta(timeWarp) == 16 * timeWarp

\* A frame while not playing, dt ms after the previous one: animate returns
\* at once (src/game.js:1033).  No such frame begins after the time until.
AnimatePaused(dt, until) ==
    /\ pc = "idle"
    /\ ~gameState.isPlaying
    /\ now + dt <= until
    /\ now' = now + dt
    /\ UNCHANGED <<gameState, camera, moveState, velocity, world, cameraShake,
                   controls, delta, pc, frames, log, response>>

\* A frame while playing, dt ms after the previous one, as long as fewer than
\* maxFrames were animated.
AnimateBegin(dt, maxFrames) ==
    /\ pc = "idle"
    /\ gameState.isPlaying
    /\ frames < maxFrames
    /\ now' = now + dt
    /\ pc' = "updateAI"
    /\ delta' = FrameDelta(gameState.timeWarp)
    /\ frames' = frames + 1
    /\ UNCHANGED <<gameState, camera, moveState, velocity, world, cameraShake,
                   controls, log, response>>

\* --- updateAI (src/game.js:515-608) ---

\* userData.speed * factor * gameState.timeWarp, factor in tenths.
GuardStep(speed, factor, timeWarp) == Div(speed * factor * timeWarp, 10 * Pct)

\* position.add(dir.multiplyScalar(step)), dir in 1e-4.
Advance(position, dir, step) == VAdd(position, VScale(dir, step, Unit))

\* The sentinel's field (src/game.js:525-529), in 1e-4.
SentinelField(guard, playerPosition) ==
    Vec(Div(playerPosition.x - guard.position.x, 100 * 100), -5000,
        Div(playerPosition.z - guard.position.z, 100 * 100))

SentinelStep(guard, playerPosition) ==
    IF DistanceTo(guard.position, playerPosition) < 15 * Micro
    THEN [guard EXCEPT !.hasGravityField = TRUE,
                       !.gravityField = SentinelField(guard, playerPosition)]
    ELSE guard

\* The push without the shift.
PushHistoryUnbounded(history, position) == Append(history, position)

\* push, then shift when longer than ECHO_GUARD_HISTORY_LENGTH
\* (src/game.js:533-537).
PushHistory(history, position) ==
    LET h == Append(history, position)
    IN  IF Len(h) > ECHO_GUARD_HISTORY_LENGTH THEN Tail(h) ELSE h

\* The move toward the oldest entry once the history holds
\* ECHO_GUARD_HISTORY_LENGTH (src/game.js:539-543).
EchoMove(guard, timeWarp) ==
    IF Len(guard.playerPositionHistory) >= ECHO_GUARD_HISTORY_LENGTH
    THEN [guard EXCEPT !.position =
             Advance(@, Normalize(VSub(guard.playerPositionHistory[1], @)),
                     GuardStep(guard.speed, 15, timeWarp))]
    ELSE guard

EchoStep(guard, playerPosition, timeWarp) ==
    EchoMove([guard EXCEPT !.playerPositionHistory = PushHistory(@, playerPosition)],
             timeWarp)

REBUILD_INTERVAL == 5000
TEMPORARY_LIFETIME == 10000

\* The void architect rebuilding in every call.
RebuildsAlways(guard, t) == guard.guardType = "void"

\* Whether the void architect rebuilds in this call (src/game.js:547).
Rebuilds(guard, t) ==
    guard.guardType = "void" /\ t - guard.lastRoomChangeTime > REBUILD_INTERVAL

\* voidArchitectRebuild (src/game.js:610-626).
TemporaryPlatform(guard, t) ==
    [type |-> "temporary",
     position |-> VSub(guard.position, Vec(0, Micro, 0)),
     lifetime |-> TEMPORARY_LIFETIME,
     spawnTime |-> t,
     opacity |-> 7000]

VoidStep(guard, t) ==
    IF Rebuilds(guard, t) THEN [guard EXCEPT !.lastRoomChangeTime = t] ELSE guard

\* The type-specific part (src/game.js:520-552).
SpecialStep(guard, playerPosition, timeWarp, t) ==
    CASE guard.guardType = "sentinel" -> SentinelStep(guard, playerPosition)
      [] guard.guardType = "echo" -> EchoStep(guard, playerPosition, timeWarp)
      [] guard.guardType = "void" -> VoidStep(guard, t)
      [] OTHER -> guard

\* The patrol move (src/game.js:555-569).
PatrolTarget(guard) == guard.patrolPoints[guard.patrolIndex + 1]

\* The guard moved to position, a point counted as reached from 1 away.
ArriveWide(guard, position) ==
    [guard EXCEPT
        !.position = position,
        !.patrolIndex =
            IF DistanceTo(position, PatrolTarget(guard)) < Micro
            THEN (@ + 1) % Len(guard.patrolPoints)
            ELSE @]

\* The guard moved to position: the index advances when the point it was
\* heading for is reached (src/game.js:567-569).
Arrive(guard, position) ==
    [guard EXCEPT
        !.position = position,
        !.patrolIndex =
            IF DistanceTo(position, PatrolTarget(guard)) < Micro \div 2
            THEN (@ + 1) % Len(guard.patrolPoints)
            ELSE @]

PatrolStep(guard, timeWarp) ==
    Arrive(guard, Advance(guard.position,
                          Normalize(VSub(PatrolTarget(guard), guard.position)),
                          GuardStep(guard.speed, 10, timeWarp)))

\* (0, 0, -1) turned by the quaternion guard.lookAt(targetPoint) set
\* (src/game.js:564, 578-579): Object3D.lookAt turns a mesh's +z axis toward
\* the target, so its -z axis points from the target to the guard.
ForwardDir(position, targetPoint) ==
    LET z == Normalize(VSub(targetPoint, position))
    IN  IF z = Vec(0, 0, 0) THEN Vec(0, 0, -Unit) ELSE Vec(-z.x, -z.y, -z.z)

DETECTION_RADIUS == 12
CONTACT_RADIUS == 2
CHASE_THRESHOLD == 50
MAX_ALERT == 100

\* toPlayer.dot(forwardDir) > 0.7 (src/game.js:575-582).
InVisionCone(position, forwardDir, playerPosition) ==
    VDotU(Normalize(VSub(playerPosition, position)), forwardDir) > 7000

\* The increment without the cap, and an increment of 2.
RaiseAlertUncapped(alertLevel) == alertLevel + 3
RaiseAlertSlowly(alertLevel) == Min(MAX_ALERT, alertLevel + 2)

\* src/game.js:583 and 603.
RaiseAlert(alertLevel) == Min(MAX_ALERT, alertLevel + 3)
DecayAlert(alertLevel) == Max(0, alertLevel - 1)

\* The chase move toward the predicted position (src/game.js:588-593).
ChaseStep(position, speed, playerPosition, playerVelocity, timeWarp) ==
    LET predictedPos == VAdd(playerPosition, VScale(playerVelocity, 2, 1))
    IN  Advance(position, Normalize(VSub(predictedPos, position)),
                GuardStep(speed, 25, timeWarp))

\* One iteration of the forEach: the guard afterwards, whether it hit the
\* player (src/game.js:596), whether it had the player in its radius and
\* cone (src/game.js:572, 582), whether it made the chase move, and where
\* the patrol move had left it.  Detect is the part after the patrol move
\* (src/game.js:571-606), g the guard as the move left it and targetPoint the
\* point it looks at.
Detect(g, targetPoint, playerPosition, playerVelocity, timeWarp) ==
    IF DistanceTo(g.position, playerPosition) < DETECTION_RADIUS * Micro
    THEN IF InVisionCone(g.position, ForwardDir(g.position, targetPoint),
                         playerPosition)
         THEN IF RaiseAlert(g.alertLevel) > CHASE_THRESHOLD
              THEN [guard |-> [g EXCEPT
                                 !.alertLevel = RaiseAlert(@),
                                 !.position = ChaseStep(@, g.speed, playerPosition,
                                                        playerVelocity, timeWarp)],
                    hit |-> DistanceTo(g.position, playerPosition)
                                < CONTACT_RADIUS * Micro,
                    seen |-> TRUE, chased |-> TRUE, patrolled |-> g.position]
              ELSE [guard |-> [g EXCEPT !.alertLevel = RaiseAlert(@)],
                    hit |-> FALSE, seen |-> TRUE, chased |-> FALSE,
                    patrolled |-> g.position]
         ELSE [guard |-> [g EXCEPT !.alertLevel = DecayAlert(@)],
               hit |-> FALSE, seen |-> FALSE, chased |-> FALSE,
               patrolled |-> g.position]
    ELSE [guard |-> g, hit |-> FALSE, seen |-> FALSE, chased |-> FALSE,
          patrolled |-> g.position]

\* The patrol move of a guard that made its type's move, toward the point it
\* was heading for, and then the detection.
PatrolAndDetect(guard, playerPosition, playerVelocity, timeWarp) ==
    Detect(PatrolStep(guard, timeWarp), PatrolTarget(guard), playerPosition,
           playerVelocity, timeWarp)

UpdateGuard(guard, playerPosition, playerVelocity, timeWarp, t) ==
    PatrolAndDetect(SpecialStep(guard, playerPosition, timeWarp, t),
                    playerPosition, playerVelocity, timeWarp)

\* Math.max(0, health - 0.5) and Math.max(0, structuralIntegrity - 0.3)
\* (src/game.js:597-599); amounts in milli.
DamageHealth(health, amount) == Max(0, health - amount)
DamageIntegrity(integrity, amount) == Max(0, integrity - amount)

\* The damage one guard does when it hit the player.
ContactStep(gs, hit) ==
    IF hit
    THEN [gs EXCEPT !.health = DamageHealth(@, 500),
                    !.structuralIntegrity = DamageIntegrity(@, 300)]
    ELSE gs

RECURSIVE ContactDamage(_, _, _)
\* The damage of the guards hits[k..], applied in order (each iteration's
\* result is bound as a value, v, before the next iteration reads it).
ContactDamage(gs, hits, k) ==
    IF k > Len(hits) THEN gs
    ELSE CHOOSE r \in {ContactDamage(v, hits, k + 1) :
                          v \in {ContactStep(gs, hits[k])}} : TRUE

RECURSIVE Rebuilt(_, _, _)
\* The temporary platforms guards[k..] spawn in this call, in order.
Rebuilt(guards, t, k) ==
    IF k > Len(guards) THEN <<>>
    ELSE (IF Rebuilds(guards[k], t) THEN <<TemporaryPlatform(guards[k], t)>> ELSE <<>>)
         \o Rebuilt(guards, t, k + 1)

\* The history after an updateAI call that turned guards into result.
Logged(l, playerPosition, guards, result) ==
    [l EXCEPT
        !.trail = IF Len(@) >= TrailLength
                  THEN Append(Tail(@), playerPosition)
                  ELSE Append(@, playerPosition),
        !.streak = [k \in 1..Len(guards) |->
                       IF result[k].seen THEN l.streak[k] + 1 ELSE 0],
        !.chasing = [k \in 1..Len(guards) |-> result[k].chased],
        !.moved = [k \in 1..Len(guards) |->
                      DistanceTo(result[k].guard.position, guards[k].position)],
        !.patrol = [k \in 1..Len(guards) |->
                       DistanceTo(result[k].patrolled, guards[k].position)]]

UpdateAI ==
    /\ pc = "updateAI"
    /\ LET result == [k \in 1..Len(world.aiGuards) |->
                        UpdateGuard(world.aiGuards[k], camera.position,
                                    gameState.velocity, gameState.timeWarp, now)]
       IN  /\ world' = [world EXCEPT
                          !.aiGuards = [k \in 1..Len(world.aiGuards) |-> result[k].guard],
                          !.dynamicElements = @ \o Rebuilt(world.aiGuards, now, 1)]
           /\ gameState' = ContactDamage(gameState,
                              [k \in 1..Len(world.aiGuards) |-> result[k].hit], 1)
           /\ log' = Logged(log, camera.position, world.aiGuards, result)
    /\ pc' = "updateDynamicElements"
    /\ UNCHANGED <<camera, moveState, velocity, cameraShake, controls, now,
                   delta, frames, response>>

\* --- updateDynamicElements (src/game.js:628-686) ---

\* A sliding wall's iteration (src/game.js:631-637): the offset advances by
\* slideSpeed, the direction flips once the offset is beyond the range, and
\* the wall moves by slideSpeed * (new) direction * timeWarp.
SlideWall(wall, timeWarp) ==
    LET offset == wall.slideOffset + wall.slideSpeed * wall.slideDirection
        dir == IF Abs(offset) > wall.slideRange
               THEN -wall.slideDirection ELSE wall.slideDirection
    IN  [wall EXCEPT
            !.slideOffset = offset,
            !.slideDirection = dir,
            !.position = [@ EXCEPT !.y = @ + Div(wall.slideSpeed * dir * timeWarp, Pct)]]

\* No age taken as beyond the lifetime.
ExpiredNever(element, t) == FALSE

\* age > lifetime (src/game.js:641-642).
Expired(element, t) == t - element.spawnTime > element.lifetime

\* Math.max(0, 0.7 * (1 - age / lifetime)), in 1e-4 (src/game.js:649).
Fade(element, t) ==
    [element EXCEPT !.opacity =
        Max(0, MulDiv(element.lifetime - (t - element.spawnTime), 7000, element.lifetime))]

RemoveAt(seq, i) == SubSeq(seq, 1, i - 1) \o SubSeq(seq, i + 1, Len(seq))

\* The callback on the element at 1-based index i, if the array still has
\* one there (src/game.js:630-652).
VisitElement(elements, i, timeWarp, t) ==
    IF i > Len(elements) THEN elements
    ELSE IF elements[i].type = "wall"
    THEN [elements EXCEPT ![i] =
             IF @.canSlide THEN SlideWall(@, timeWarp) ELSE @]
    ELSE IF Expired(elements[i], t)
    THEN RemoveAt(elements, i)
    ELSE [elements EXCEPT ![i] = Fade(@, t)]

RECURSIVE VisitElements(_, _, _, _, _)
\* Array.prototype.forEach over dynamicElements, at 1-based index i of the n
\* the array held when the loop began: an index past the end of the array (as
\* splice shortens it) is skipped, and a removal moves the later elements one
\* place down while the index still advances.
VisitElements(elements, i, n, timeWarp, t) ==
    IF i > n THEN elements
    ELSE CHOOSE r \in {VisitElements(v, i + 1, n, timeWarp, t) :
                          v \in {VisitElement(elements, i, timeWarp, t)}} : TRUE

PlatformTop(platform) == platform.position.y + platform.height \div 2
MaxRadius(platform) == Max(platform.width, platform.depth) \div 2
HorizontalDist(playerPos, platform) ==
    VLength(Vec(playerPos.x - platform.position.x, 0,
                playerPos.z - platform.position.z))

\* The player stands on (or near) the platform (src/game.js:669).
OnDissolving(platform, playerPos) ==
    /\ platform.canDissolve
    /\ HorizontalDist(playerPos, platform) < MaxRadius(platform)
    /\ Abs(playerPos.y - PlatformTop(platform)) < 3 * Micro

\* dissolveProgress += 0.01 * timeWarp, in 1e-4 (src/game.js:670).
Dissolve(platform, timeWarp) ==
    [platform EXCEPT !.dissolveProgress = @ + timeWarp]

\* position.add(slideDirection * timeWarp) (src/game.js:682-684).
SlidePlatform(platform, timeWarp) ==
    IF platform.canSlide
    THEN [platform EXCEPT !.position =
             VAdd(@, VScale(platform.slideDirection, timeWarp, Pct))]
    ELSE platform

UpdatePlatform(platform, playerPos, timeWarp) ==
    SlidePlatform(IF OnDissolving(platform, playerPos)
                  THEN Dissolve(platform, timeWarp) ELSE platform,
                  timeWarp)

\* A platform the player is on whose progress, after this call's increment,
\* is beyond 0.8 collapses (src/game.js:674-677).
Collapses(platform, playerPos, timeWarp) ==
    /\ OnDissolving(platform, playerPos)
    /\ Dissolve(platform, timeWarp).dissolveProgress > 8000

\* structuralIntegrity after one platform's iteration.
CollapseStep(integrity, platform, playerPos, timeWarp) ==
    IF Collapses(platform, playerPos, timeWarp)
    THEN DamageIntegrity(integrity, Milli) ELSE integrity

RECURSIVE CollapseDamage(_, _, _, _, _)
CollapseDamage(integrity, platforms, playerPos, timeWarp, k) ==
    IF k > Len(platforms) THEN integrity
    ELSE CHOOSE r \in {CollapseDamage(v, platforms, playerPos, timeWarp, k + 1) :
                          v \in {CollapseStep(integrity, platforms[k], playerPos,
                                               timeWarp)}} : TRUE

UpdateDynamicElements ==
    /\ pc = "updateDynamicElements"
    /\ world' = [world EXCEPT
          !.dynamicElements = VisitElements(@, 1, Len(@), gameState.timeWarp, now),
          !.platforms = [k \in 1..Len(@) |->
                            UpdatePlatform(@[k], camera.position, gameState.timeWarp)]]
    /\ gameState' = [gameState EXCEPT !.structuralIntegrity =
          CollapseDamage(@, world.platforms, camera.position, gameState.timeWarp, 1)]
    /\ pc' = "rotateLoot"
    /\ UNCHANGED <<camera, moveState, velocity, cameraShake, controls, now,
                   delta, frames, log, response>>

\* --- the loot animation (src/game.js:1047-1051) ---

\* position.y += Math.sin(Date.now() * 0.001 + rotation) * 0.015; the
\* rotation angles of the mesh are not modelled.
Bob(loot, t) ==
    [loot EXCEPT !.position =
        [@ EXCEPT !.y = @ + Div(Sin(t * 10 + loot.rotation) * 3, 2)]]

RotateLoot ==
    /\ pc = "rotateLoot"
    /\ world' = [world EXCEPT !.lootItems = [k \in 1..Len(@) |-> Bob(@[k], now)]]
    /\ pc' = IF controls.isLocked THEN "physics" ELSE "applyCameraShake"
    /\ UNCHANGED <<gameState, camera, moveState, velocity, cameraShake, controls,
                   now, delta, frames, log, response>>

\* --- gravity and position integration (src/game.js:1055-1060) ---

\* gravity * 0.5 * gravityMagnitude * delta, in micro-units.
GravityForce(gravity, gravityMagnitude, d) ==
    LET k == Div(gravityMagnitude * d, 2000)
    IN  Vec(Div(gravity.x * k, Unit), Div(gravity.y * k, Unit), Div(gravity.z * k, Unit))

\* v * delta, d in 1e-5.
TimesDelta(v, d) == VScale(v, d, 100 * 1000)

ApplyPhysics ==
    /\ pc = "physics"
    /\ LET v == VAdd(gameState.velocity,
                     GravityForce(gameState.gravity, gameState.gravityMagnitude, delta))
       IN  /\ gameState' = [gameState EXCEPT !.velocity = v]
           /\ camera' = [camera EXCEPT !.position = VAdd(@, TimesDelta(v, delta))]
    /\ log' = [log EXCEPT !.pulled = gameState.gravity]
    /\ pc' = "checkGroundCollision"
    /\ UNCHANGED <<moveState, velocity, world, cameraShake, controls, now,
                   delta, frames, response>>

\* --- checkGroundCollision (src/game.js:987-1027) ---

\* The platform catches the player whatever the gravity vector is.
LandsUnderAnyGravity(platform, playerPos, gravity) ==
    /\ HorizontalDist(playerPos, platform) < MaxRadius(platform)
    /\ playerPos.y <= PlatformTop(platform) + 2 * Micro
    /\ playerPos.y >= PlatformTop(platform)

\* The platform of one iteration catches the player (src/game.js:1006-1009).
Lands(platform, playerPos, gravity) ==
    /\ HorizontalDist(playerPos, platform) < MaxRadius(platform)
    /\ Abs(gravity.y) > VERTICAL_GRAVITY_THRESHOLD
    /\ playerPos.y <= PlatformTop(platform) + 2 * Micro
    /\ playerPos.y >= PlatformTop(platform)

\* One iteration (src/game.js:1010-1014); s holds playerPos, velocity and
\* onGround as the earlier iterations left them.
GroundStep(s, platform, gravity) ==
    IF Lands(platform, s.position, gravity)
    THEN [position |-> [s.position EXCEPT !.y = PlatformTop(platform) + 2 * Micro],
          velocity |-> [s.velocity EXCEPT !.y = 0],
          onGround |-> TRUE]
    ELSE s

RECURSIVE GroundLoop(_, _, _, _)
\* The forEach over the platforms from index k on.
GroundLoop(s, platforms, gravity, k) ==
    IF k > Len(platforms) THEN s
    ELSE CHOOSE r \in {GroundLoop(v, platforms, gravity, k + 1) :
                          v \in {GroundStep(s, platforms[k], gravity)}} : TRUE

VOID_LEVEL == -50
FALL_DAMAGE == 20

\* if (playerPos.y < -50) (src/game.js:1021).
FellIntoVoid(playerPos) == playerPos.y < VOID_LEVEL * Micro

\* The fall branch without the velocity reset.
VoidFallKeepingVelocity(s) ==
    [s EXCEPT !.health = DamageHealth(@, FALL_DAMAGE * Milli),
              !.position = SPAWN,
              !.shake = Micro]

\* The fall branch (src/game.js:1022-1025): damage, respawn, shake 1.0.
VoidFall(s) ==
    [s EXCEPT !.health = DamageHealth(@, FALL_DAMAGE * Milli),
              !.position = SPAWN,
              !.velocity = Vec(0, 0, 0),
              !.shake = Micro]

checkGroundCollision(position, gs, platforms, shake) ==
    LET g == GroundLoop([position |-> position, velocity |-> gs.velocity,
                         onGround |-> FALSE],
                        platforms, gs.gravity, 1)
        s == [position |-> g.position, velocity |-> g.velocity,
              health |-> gs.health, shake |-> shake]
    IN  [canJump |-> g.onGround] @@
        (IF FellIntoVoid(g.position) THEN VoidFall(s) ELSE s)

CheckGroundCollision ==
    /\ pc = "checkGroundCollision"
    /\ LET r == checkGroundCollision(camera.position, gameState, world.platforms,
                                     cameraShake)
       IN  /\ camera' = [camera EXCEPT !.position = r.position]
           /\ gameState' = [gameState EXCEPT !.velocity = r.velocity,
                                             !.canJump = r.canJump,
                                             !.health = r.health]
           /\ cameraShake' = r.shake
    /\ pc' = "checkZones"
    /\ UNCHANGED <<moveState, velocity, world, controls, now, delta, frames, log, response>>

\* --- checkZones (src/game.js:764-820) ---

\* The player is inside the zone's cylinder (src/game.js:774-779).
InGravityZone(zone, playerPos) ==
    /\ VLength(Vec(playerPos.x - zone.position.x, 0,
                   playerPos.z - zone.position.z)) < 5 * Micro
    /\ Abs(playerPos.y - zone.position.y) < 10 * Micro

\* gravity.copy(gravityVector); gravityMagnitude = gravityVector.length()
\* (src/game.js:780-781).
ZoneStep(g, zone, playerPos) ==
    IF InGravityZone(zone, playerPos)
    THEN [gravity |-> zone.gravityVector,
          gravityMagnitude |-> ULength(zone.gravityVector)]
    ELSE g

RECURSIVE ZoneGravity(_, _, _, _)
\* The forEach over the gravity zones from index k on: a later zone that
\* holds the player overwrites an earlier one (src/game.js:780-781).
ZoneGravity(g, zones, playerPos, k) ==
    IF k > Len(zones) THEN g
    ELSE CHOOSE r \in {ZoneGravity(v, zones, playerPos, k + 1) :
                          v \in {ZoneStep(g, zones[k], playerPos)}} : TRUE

SENTINEL_RANGE == 15

\* Vector3.lerp(v, alpha): this += (v - this) * alpha, alpha in 1e-4.
Lerp(a, b, alpha) == VAdd(a, VScale(VSub(b, a), alpha, Unit))

\* influence * 0.5 with influence = 1 - distToGuard / 15, in 1e-4
\* (src/game.js:792-793).
BlendWeight(dist) == Div(Unit - Div(dist, SENTINEL_RANGE * 100), 2)

FieldApplies(guard, playerPos) ==
    /\ guard.guardType = "sentinel"
    /\ guard.hasGravityField
    /\ DistanceTo(guard.position, playerPos) < SENTINEL_RANGE * Micro

\* gravity.lerp(gravityField, influence * 0.5) (src/game.js:791-794).
SentinelPull(gravity, guard, playerPos) ==
    IF FieldApplies(guard, playerPos)
    THEN Lerp(gravity, guard.gravityField,
              BlendWeight(DistanceTo(guard.position, playerPos)))
    ELSE gravity

RECURSIVE SentinelGravity(_, _, _, _)
\* The forEach over the guards from index k on (src/game.js:787-796).
SentinelGravity(gravity, guards, playerPos, k) ==
    IF k > Len(guards) THEN gravity
    ELSE CHOOSE r \in {SentinelGravity(v, guards, playerPos, k + 1) :
                          v \in {SentinelPull(gravity, guards[k], playerPos)}} : TRUE

\* src/game.js:803-807.
TimeStep(timeWarp, zone, playerPos) ==
    IF DistanceTo(playerPos, zone.position) < 5 * Micro
    THEN zone.timeWarp ELSE timeWarp

RECURSIVE ZoneTimeWarp(_, _, _, _)
\* The forEach over the time zones from index k on (src/game.js:799-812).
ZoneTimeWarp(timeWarp, zones, playerPos, k) ==
    IF k > Len(zones) THEN timeWarp
    ELSE CHOOSE r \in {ZoneTimeWarp(v, zones, playerPos, k + 1) :
                          v \in {TimeStep(timeWarp, zones[k], playerPos)}} : TRUE

\* checkZones starting from the gravity, gravityMagnitude and timeWarp of
\* the frame before instead of the defaults.
checkZonesKeeping(gs, w, playerPos) ==
    [gs EXCEPT
        !.gravity = SentinelGravity(
                        ZoneGravity([gravity |-> gs.gravity,
                                     gravityMagnitude |-> gs.gravityMagnitude],
                                    w.gravityZones, playerPos, 1).gravity,
                        w.aiGuards, playerPos, 1),
        !.gravityMagnitude = ZoneGravity([gravity |-> gs.gravity,
                                          gravityMagnitude |-> gs.gravityMagnitude],
                                         w.gravityZones, playerPos, 1).gravityMagnitude,
        !.timeWarp = ZoneTimeWarp(gs.timeWarp, w.timeZones, playerPos, 1)]

checkZones(gs, w, playerPos) ==
    LET z == ZoneGravity([gravity |-> DEFAULT_GRAVITY, gravityMagnitude |-> Unit],
                         w.gravityZones, playerPos, 1)
    IN  [gs EXCEPT
            !.gravity = SentinelGravity(z.gravity, w.aiGuards, playerPos, 1),
            !.gravityMagnitude = z.gravityMagnitude,
            !.timeWarp = ZoneTimeWarp(Pct, w.timeZones, playerPos, 1)]

CheckZones ==
    /\ pc = "checkZones"
    /\ gameState' = checkZones(gameState, world, camera.position)
    /\ pc' = "checkLootCollection"
    /\ UNCHANGED <<camera, moveState, velocity, world, cameraShake, controls,
                   now, delta, frames, log, response>>

\* --- checkLootCollection (src/game.js:823-876) ---

COLLECT_RADIUS == 2500
\* 2.5, in milli-units
HEAVY_MASS == 20

\* The range test without the visibility test.
CollectsHidden(loot, playerPos) ==
    DistanceTo(playerPos, loot.position) < COLLECT_RADIUS * Milli

\* The item is picked up in this iteration (src/game.js:827-830).
Collects(loot, playerPos) ==
    loot.visible /\ DistanceTo(playerPos, loot.position) < COLLECT_RADIUS * Milli

\* triggerPlatformDestruction (src/game.js:863-876).
triggerPlatformDestruction(platforms, position, destructionValue) ==
    [k \in 1..Len(platforms) |->
        IF /\ DistanceTo(platforms[k].position, position) < 10 * Micro
           /\ platforms[k].structural
           /\ destructionValue > 30 * Milli
           /\ platforms[k].canDissolve
        THEN [platforms[k] EXCEPT !.dissolveProgress = Min(Unit, @ + 3000)]
        ELSE platforms[k]]

\* Every item taken as heavy.
HeavyAlways(loot) == TRUE

\* mass > 20 (src/game.js:838).
Heavy(loot) == loot.mass > HEAVY_MASS * Milli

\* Collecting one item (src/game.js:832-857); s holds the loot count, the
\* integrity, the shake, levelComplete and the platforms.
Collect(s, loot, lootRequired) ==
    LET heavy == Heavy(loot)
        count == s.loot + 1
    IN  [loot |-> count,
         structuralIntegrity |->
            IF heavy THEN DamageIntegrity(s.structuralIntegrity, loot.destructionValue)
            ELSE s.structuralIntegrity,
         shake |-> IF heavy THEN Micro \div 2 + loot.mass * 10 ELSE Micro \div 5,
         platforms |->
            IF heavy
            THEN triggerPlatformDestruction(s.platforms, loot.position,
                                            loot.destructionValue)
            ELSE s.platforms,
         levelComplete |-> IF count >= lootRequired THEN TRUE ELSE s.levelComplete,
         lootItems |-> s.lootItems]

\* One iteration: item k is collected and hidden, or left alone.
LootStep(s, playerPos, lootRequired, k) ==
    IF Collects(s.lootItems[k], playerPos)
    THEN [Collect(s, s.lootItems[k], lootRequired) EXCEPT
             !.lootItems = [@ EXCEPT ![k] = [@ EXCEPT !.visible = FALSE]]]
    ELSE s

RECURSIVE LootLoop(_, _, _, _)
\* The forEach over lootItems from index k on.
LootLoop(s, playerPos, lootRequired, k) ==
    IF k > Len(s.lootItems) THEN s
    ELSE CHOOSE r \in {LootLoop(v, playerPos, lootRequired, k + 1) :
                          v \in {LootStep(s, playerPos, lootRequired, k)}} : TRUE

checkLootCollection(gs, w, shake, playerPos) ==
    LootLoop([loot |-> gs.loot, structuralIntegrity |-> gs.structuralIntegrity,
              shake |-> shake, platforms |-> w.platforms,
              levelComplete |-> gs.levelComplete, lootItems |-> w.lootItems],
             playerPos, gs.lootRequired, 1)

CheckLootCollection ==
    /\ pc = "checkLootCollection"
    /\ LET r == checkLootCollection(gameState, world, cameraShake, camera.position)
       IN  /\ gameState' = [gameState EXCEPT
                               !.loot = r.loot,
                               !.structuralIntegrity = r.structuralIntegrity,
                               !.levelComplete = r.levelComplete]
           /\ world' = [world EXCEPT !.lootItems = r.lootItems,
                                     !.platforms = r.platforms]
           /\ cameraShake' = r.shake
    /\ pc' = "movement"
    /\ UNCHANGED <<camera, moveState, velocity, controls, now, delta, frames, log, response>>

\* --- movement (src/game.js:1067-1081) ---

Num(b) == IF b THEN 1 ELSE 0

\* direction.z, direction.x and direction.normalize(), in 1e-4.
MoveDirection(ms) ==
    UNormalize(Vec((Num(ms.right) - Num(ms.left)) * Unit, 0,
                   (Num(ms.forward) - Num(ms.backward)) * Unit))

\* velocity -= velocity * 10 * delta, then velocity -= direction * speed *
\* delta on the axes with a key down (src/game.js:1068-1078).
MoveVelocity(v, ms, d) ==
    LET dir == MoveDirection(ms)
        speed == IF ms.sprint THEN 30 ELSE 15
        damp(c) == c - MulDiv(c, d, 10 * 1000)
    IN  Vec(damp(v.x) - (IF ms.left \/ ms.right
                         THEN Div(dir.x * speed * d, 1000) ELSE 0),
            v.y,
            damp(v.z) - (IF ms.forward \/ ms.backward
                         THEN Div(dir.z * speed * d, 1000) ELSE 0))

\* The camera's right and forward axes in the horizontal plane, as
\* PointerLockControls.moveRight and moveForward take them (matrix column 0,
\* and camera.up x right), for a yaw of q quarter turns; in 1e-4.
QuarterCos(q) == CASE q = 0 -> 1 [] q = 1 -> 0 [] q = 2 -> -1 [] q = 3 -> 0
QuarterSin(q) == CASE q = 0 -> 0 [] q = 1 -> 1 [] q = 2 -> 0 [] q = 3 -> -1
RightAxis(yaw) == Vec(QuarterCos(yaw) * Unit, 0, -QuarterSin(yaw) * Unit)
ForwardAxis(yaw) == Vec(-QuarterSin(yaw) * Unit, 0, -QuarterCos(yaw) * Unit)

\* controls.moveRight(-velocity.x * delta); controls.moveForward(-velocity.z
\* * delta): the displacement of the camera (src/game.js:1080-1081).
MoveDisplacement(v, yaw, d) ==
    VAdd(VScale(RightAxis(yaw), -MulDiv(v.x, d, 100 * 1000), Unit),
         VScale(ForwardAxis(yaw), -MulDiv(v.z, d, 100 * 1000), Unit))

Movement ==
    /\ pc = "movement"
    /\ velocity' = MoveVelocity(velocity, moveState, delta)
    /\ camera' = [camera EXCEPT !.position =
                     VAdd(@, MoveDisplacement(velocity', camera.yaw, delta))]
    /\ pc' = "jump"
    /\ UNCHANGED <<gameState, moveState, world, cameraShake, controls, now,
                   delta, frames, log, response>>

\* --- jump (src/game.js:1083-1089) ---

JUMP_STRENGTH == 10

\* gravity.clone().normalize().multiplyScalar(-10), in micro-units.
JumpForce(gravity) == VScale(UNormalize(gravity), -JUMP_STRENGTH * 100, 1)

\* The jump key taken whether the player is on the ground or not.
JumpsInAir(ms, gs) == ms.jump

\* if (moveState.jump && gameState.canJump) (src/game.js:1084).
Jumps(ms, gs) == ms.jump /\ gs.canJump

Jump ==
    /\ pc = "jump"
    /\ gameState' =
          IF Jumps(moveState, gameState)
          THEN [gameState EXCEPT !.velocity = VAdd(@, JumpForce(gameState.gravity)),
                                 !.canJump = FALSE]
          ELSE gameState
    /\ pc' = "rotateGravity"
    /\ UNCHANGED <<camera, moveState, velocity, world, cameraShake, controls,
                   now, delta, frames, log, response>>

\* --- gravity rotation (src/game.js:1091-1101) ---

\* gravity.set(Math.sin(angle), -Math.cos(angle), 0)
RotatedGravity(angle) == Vec(Sin(angle), -Cos(angle), 0)

\* One of the two if-blocks: the rotation advances by step and the gravity
\* vector is set from it.
Rotate(gs, step) ==
    [gs EXCEPT !.gravityRotation = @ + step,
               !.gravity = RotatedGravity(gs.gravityRotation + step)]

\* The rotation applied in every frame, whether a rotate key is held or not.
rotateGravityUnheld(gs, ms) == Rotate(gs, GRAVITY_ROTATION_SPEED)

rotateGravity(gs, ms) ==
    LET a == IF ms.rotateGravityLeft THEN Rotate(gs, GRAVITY_ROTATION_SPEED) ELSE gs
    IN  IF ms.rotateGravityRight THEN Rotate(a, -GRAVITY_ROTATION_SPEED) ELSE a

RotateGravity ==
    /\ pc = "rotateGravity"
    /\ gameState' = rotateGravity(gameState, moveState)
    /\ log' = IF moveState.rotateGravityLeft \/ moveState.rotateGravityRight
              THEN [log EXCEPT !.rotatedAt = now] ELSE log
    /\ pc' = "applyCameraShake"
    /\ UNCHANGED <<camera, moveState, velocity, world, cameraShake, controls,
                   now, delta, frames, response>>

\* --- applyCameraShake (src/game.js:754-761) ---

SHAKE_FLOOR == 10000
\* 0.01, in micro-units

\* (Math.random() - 0.5) * intensity on each axis, in micro-units.
ShakeOffset(r, intensity) ==
    Vec(MulDiv(intensity, r.x, Unit), MulDiv(intensity, r.y, Unit),
        MulDiv(intensity, r.z, Unit))

\* r holds the three values Math.random() - 0.5, in 1e-4.
ApplyCameraShake(r) ==
    /\ pc = "applyCameraShake"
    /\ IF cameraShake > SHAKE_FLOOR
       THEN /\ camera' = [camera EXCEPT !.position = VAdd(@, ShakeOffset(r, cameraShake))]
            /\ cameraShake' = Div(cameraShake * 95, 100)
       ELSE UNCHANGED <<camera, cameraShake, response>>
    /\ pc' = "checkGameOver"
    /\ UNCHANGED <<gameState, moveState, velocity, world, controls, now, delta,
                   frames, log, response>>

\* --- integrity shake and game over (src/game.js:1110-1127) ---

\* Math.max(intensity, (50 - structuralIntegrity) * 0.02)
IntegrityShake(shake, integrity) ==
    IF integrity < 50 * Milli THEN Max(shake, (50 * Milli - integrity) * 20) ELSE shake

\* The test on health alone.
GameOverOnHealth(gs) == gs.health <= 0

\* if (health <= 0 || structuralIntegrity <= 0)
GameOver(gs) == gs.health <= 0 \/ gs.structuralIntegrity <= 0

\* The respawn without structuralIntegrity = 100.
RespawnBroken(gs) ==
    [gs EXCEPT !.health = FULL,
               !.gravity = DEFAULT_GRAVITY,
               !.gravityMagnitude = Unit,
               !.gravityRotation = 0,
               !.velocity = Vec(0, 0, 0)]

\* The respawn (src/game.js:1119-1125).
Respawn(gs) ==
    [gs EXCEPT !.health = FULL,
               !.structuralIntegrity = FULL,
               !.gravity = DEFAULT_GRAVITY,
               !.gravityMagnitude = Unit,
               !.gravityRotation = 0,
               !.velocity = Vec(0, 0, 0)]

CheckGameOver ==
    /\ pc = "checkGameOver"
    /\ IF GameOver(gameState)
       THEN /\ gameState' = Respawn(gameState)
            /\ camera' = [camera EXCEPT !.position = SPAWN]
            /\ cameraShake' = 2 * Micro
       ELSE /\ cameraShake' = IntegrityShake(cameraShake, gameState.structuralIntegrity)
            /\ UNCHANGED <<gameState, camera>>
    /\ pc' = "idle"
    /\ UNCHANGED <<moveState, velocity, world, controls, now, delta, frames, log, response>>

\* ------------------------------------------------------------------------
\* Specifications.

\* The statements of one frame after its start; draws are the values
\* Math.random() - 0.5 may take in applyCameraShake.
FrameBody(draws) ==
    \/ UpdateAI
    \/ UpdateDynamicElements
    \/ RotateLoot
    \/ ApplyPhysics
    \/ CheckGroundCollision
    \/ CheckZones
    \/ CheckLootCollection
    \/ Movement
    \/ Jump
    \/ RotateGravity
    \/ \E r \in draws : ApplyCameraShake(r)
    \/ CheckGameOver

\* Date.now() when the page loads, and the time between two frames.
StartTime == 1000 * 1000
FrameMs == 16

\* Math.random() - 0.5 in each of the three calls of applyCameraShake
\* (src/game.js:756-758), at the two ends of its range.
Draws == {Vec(-5000, -5000, -5000), Vec(4999, 4999, 4999)}

\* The game from page load: up to MaxPaused frames go by before the start
\* button is pressed, then up to MaxFrames frames with no key pressed.
MaxPaused == 1
MaxFrames == 130

Init == Loaded(StartTime)

Next ==
    \/ AnimatePaused(FrameMs, StartTime + MaxPaused * FrameMs)
    \/ Lock
    \/ AnimateBegin(FrameMs, MaxFrames)
    \/ FrameBody(Draws)

Spec == Init /\ [][Next]_vars

\* ------------------------------------------------------------------------
\* Properties of the game left alone from page load (Spec).

EchoGuards == {k \in 1..Len(world.aiGuards) : world.aiGuards[k].guardType = "echo"}

\* The last n entries of a sequence.
Last(seq, n) == SubSeq(seq, Len(seq) - n + 1, Len(seq))

\* C3: from the spawn position with zero velocity, no input, normal gravity
\* and timeWarp 1, the player rests on the main platform once 120 frames have
\* been animated: canJump is true and velocity.y is 0.
RestsAfter120Ticks ==
    frames = 120 /\ pc = "idle" => gameState.canJump /\ gameState.velocity.y = 0

\* C6: the gravity vector has length 1 in every state (to the last digits of
\* the 1e-4 fixed point).
GravityIsUnitLength ==
    /\ ULength(gameState.gravity) >= Unit - 10
    /\ ULength(gameState.gravity) <= Unit + 10

\* C7: an echo guard's playerPositionHistory never holds more than
\* ECHO_GUARD_HISTORY_LENGTH entries, and the entries it holds are the
\* positions of the most recent updateAI calls (the oldest are the ones
\* evicted).
EchoHistoryBounded ==
    \A k \in EchoGuards :
        LET history == world.aiGuards[k].playerPositionHistory
        IN  /\ Len(history) <= ECHO_GUARD_HISTORY_LENGTH
            /\ Len(history) <= Len(log.trail)
            /\ history = Last(log.trail, Len(history))

\* A full history that has evicted an entry.
EchoHistoryEvicted ==
    /\ frames > ECHO_GUARD_HISTORY_LENGTH
    /\ \E k \in EchoGuards :
          Len(world.aiGuards[k].playerPositionHistory) = ECHO_GUARD_HISTORY_LENGTH

\* C8: after more than 60 pushes, the entry at index 0 of an echo guard's
\* history is the position updateAI received 60 calls before the latest one.
EchoOldestIs60TicksOld ==
    frames > ECHO_GUARD_HISTORY_LENGTH /\ Len(log.trail) = TrailLength =>
        \A k \in EchoGuards :
            world.aiGuards[k].playerPositionHistory[1]
                = log.trail[Len(log.trail) - ECHO_GUARD_HISTORY_LENGTH]

\* ------------------------------------------------------------------------
\* Games in progress.  The level is the one the start button generates at
\* StartTime; the player has since got to a position of the level, and the
\* frame before left gameState as checkZones computes it there.

Started ==
    generateLevel(EmptyWorld(StartTime % RandomModulus),
                  [InitialGameState EXCEPT !.isPlaying = TRUE], StartTime)

\* A scene: where the player is, the velocities, the gameState fields and
\* the world as play so far left them.
Scene(position, fall, walk, gs, w) ==
    [position |-> position, fall |-> fall, walk |-> walk, gs |-> gs, w |-> w]

InPlay(s) ==
    /\ gameState = checkZones([s.gs EXCEPT !.velocity = s.fall], s.w, s.position)
    /\ camera = [position |-> s.position, yaw |-> 0]
    /\ moveState = InitialMoveState
    /\ velocity = s.walk
    /\ world = s.w
    /\ cameraShake = 0
    /\ controls = [isLocked |-> TRUE]
    /\ now = StartTime
    /\ delta = 0
    /\ pc = "idle"
    /\ frames = 0
    /\ log = NewLog(Len(s.w.aiGuards))
    /\ response = NoResponse

Offset(position, dx, dy, dz) == VAdd(position, Vec(dx, dy, dz))

\* ------------------------------------------------------------------------
\* SpecKeys: the player just spawned, inside one of the gravity zones, or
\* falling at the upper edge of one of the time zones, pressing and releasing Q (rotate gravity) and D (strafe) and turning the
\* camera by a quarter, over MaxKeyFrames frames.
MaxKeyFrames == 2

KeyScenes ==
    {Scene(SPAWN, Vec(0, 0, 0), Vec(0, 0, 0), Started.gameState, Started.world)}
    \cup {Scene(Started.world.gravityZones[k].position, Vec(0, 0, 0), Vec(0, 0, 0),
                Started.gameState, Started.world) : k \in 1..GRAVITY_ZONE_COUNT}
    \cup {Scene(Offset(Started.world.timeZones[k].position, 0, 4999000, 0),
                Vec(0, -2 * Micro, 0), Vec(0, 0, 0),
                Started.gameState, Started.world) : k \in 1..Len(timeFractureTypes)}

InitKeys == \E s \in KeyScenes : InPlay(s)

NextKeys ==
    \/ \E code \in {"KeyQ", "KeyD"} : KeyDown(code)
    \/ \E code \in {"KeyQ", "KeyD"} : KeyUp(code)
    \/ \E yaw \in 0..1 : MouseMove(yaw)
    \/ AnimateBegin(FrameMs, MaxKeyFrames)
    \/ FrameBody(Draws)

SpecKeys == InitKeys /\ [][NextKeys]_vars

\* The component of the displacement d (micro-units) along g (1e-4).
Along(d, g) == d.x * g.x + d.y * g.y + d.z * g.z

\* C4: whatever the gravity vector in effect, the displacement the movement
\* statements give the camera has no component along it.
MovementOrthogonalToGravity ==
    [][pc = "movement" =>
          Along(VSub(camera'.position, camera.position), gameState.gravity) = 0]_vars

\* C5: a frame that finds a rotation key down less than 0.6 s after the frame
\* that last rotated gravity leaves the gravity vector as it is.
RotationCooldown ==
    [][/\ pc = "rotateGravity"
       /\ moveState.rotateGravityLeft \/ moveState.rotateGravityRight
       /\ log.rotatedAt >= 0
       /\ now - log.rotatedAt < 600
       => gameState'.gravity = gameState.gravity]_vars

\* ------------------------------------------------------------------------
\* SpecHazards: the player about to fall below the void level, in contact
\* with a guard, in front of a guard, at a loot item, or on a dissolving
\* platform, with health and integrity full or almost used up; the frames
\* that follow, and Enter pressed between them.
MaxHazardFrames == 3

\* The world after the first n loot items were collected (src/game.js:831).
Looted(w, n) ==
    [w EXCEPT !.lootItems =
        [k \in 1..Len(@) |-> IF k <= n THEN [@[k] EXCEPT !.visible = FALSE] ELSE @[k]]]

\* The world with guard k at alert level a.
Alerted(w, k, a) == [w EXCEPT !.aiGuards[k].alertLevel = a]

\* The world with platform k dissolved to progress p.
Dissolved(w, k, p) == [w EXCEPT !.platforms[k].dissolveProgress = p]

\* gameState with the health, integrity and loot count of the scene.
Worn(gs, health, integrity, loot) ==
    [gs EXCEPT !.health = health, !.structuralIntegrity = integrity, !.loot = loot]

\* Where the player stands on a platform (src/game.js:1011).
StandingOn(platform) ==
    [platform.position EXCEPT !.y = PlatformTop(platform) + 2 * Micro]

\* Falling past the edge of the main platform, a frame above the void level.
FallScenes ==
    {Scene(Vec(0, VOID_LEVEL * Micro + 5000, 11 * Micro), Vec(0, -7200000, 0),
           Vec(0, 0, 0), Worn(Started.gameState, health, FULL, 0), Started.world) :
        health \in {FULL, 10 * Milli}}

\* Behind guard k (where it looks), within its reach.
Behind(k) == Offset(Started.world.aiGuards[k].position, Micro, 300000, Micro)
\* Ahead of guard k, out of its cone.
Ahead(k) == Offset(Started.world.aiGuards[k].position, -Micro, 300000, -Micro)

ContactScenes ==
    {Scene(Behind(4), Vec(0, 0, 0), Vec(0, 0, 0),
           Worn(Started.gameState, wear[1], wear[2], 0),
           Alerted(Started.world, 4, alert)) :
        wear \in {<<FULL, FULL>>, <<500, 200>>}, alert \in {60, 99}}
    \cup {Scene(Ahead(4), Vec(0, 0, 0), Vec(0, 0, 0), Started.gameState,
                Alerted(Started.world, 4, alert)) : alert \in {0, 1, 60}}

\* At loot item n, the items before it collected.
LootScenes ==
    {Scene(StandingOn(Started.world.platforms[n]), Vec(0, 0, 0), Vec(0, 0, 0),
           Worn(Started.gameState, FULL, integrity, n - 1),
           Looted(Started.world, n - 1)) :
        n \in {9, 10}, integrity \in {FULL, 5 * Milli}}

DissolvingPlatforms ==
    {k \in 1..Len(Started.world.platforms) : Started.world.platforms[k].canDissolve}

\* On a dissolving platform that is about to collapse.
DissolveScenes ==
    {Scene(StandingOn(Started.world.platforms[k]), Vec(0, 0, 0), Vec(0, 0, 0),
           Worn(Started.gameState, FULL, integrity, 0),
           Dissolved(Started.world, k, 8000)) :
        k \in DissolvingPlatforms, integrity \in {FULL, 700}}

\* Out of the level with the void level not reached: 100 up, still rising
\* from a jump off the main platform (a jump of 10 against a gravity of 0.5
\* rises 100), and falling 59 out from the platform at (51, 41, 0).
StrayScenes ==
    {Scene(Vec(0, 100 * Micro, 0), Vec(0, 1500000, 0), Vec(0, 0, 0),
           Started.gameState, Started.world),
     Scene(Vec(110 * Micro, 20 * Micro, 0), Vec(0, -4500000, 0), Vec(0, 0, 0),
           Started.gameState, Started.world)}

\* The second level as Enter generates it at StartTime (src/game.js:1146-1151).
Advanced ==
    generateLevel(Started.world,
                  [Started.gameState EXCEPT !.level = 2,
                                            !.lootRequired = NextLootRequired(2)],
                  StartTime)

\* The world with every loot item but item n collected.
LootedAllBut(w, n) ==
    [w EXCEPT !.lootItems =
        [k \in 1..Len(@) |-> IF k # n THEN [@[k] EXCEPT !.visible = FALSE] ELSE @[k]]]

\* On the second level, at the one loot item left (one with no guard on its
\* platform).
SecondLevelScenes ==
    {Scene(StandingOn(Advanced.world.platforms[13]), Vec(0, 0, 0), Vec(0, 0, 0),
           Worn(Advanced.gameState, FULL, FULL, Len(Advanced.world.lootItems) - 1),
           LootedAllBut(Advanced.world, 13))}

\* The world with every guard on the last leg of its round, heading for its
\* last patrol point from its third, less than a step from reaching it, or
\* a step farther.
Patrolling(w, away) ==
    [w EXCEPT !.aiGuards =
        [k \in 1..Len(w.aiGuards) |->
            [w.aiGuards[k] EXCEPT
                !.patrolIndex = Len(w.aiGuards[k].patrolPoints) - 1,
                !.position = Offset(w.aiGuards[k].patrolPoints[
                                        Len(w.aiGuards[k].patrolPoints)],
                                    away, 0, 0)]]]

\* At the spawn point, the guards about to finish a round.
PatrolScenes ==
    {Scene(SPAWN, Vec(0, 0, 0), Vec(0, 0, 0), Started.gameState,
           Patrolling(Started.world, away)) : away \in {510000, 560000}}

\* Rising at 8 after a jump from a lower platform, right under the top
\* face of platform 3.
RisingScenes ==
    {Scene([Started.world.platforms[3].position EXCEPT
               !.y = PlatformTop(Started.world.platforms[3]) - 50000],
           Vec(0, 8 * Micro, 0), Vec(0, 0, 0), Started.gameState, Started.world)}

\* The third level as Enter generates it at StartTime.
Third ==
    generateLevel(Advanced.world,
                  [Advanced.gameState EXCEPT !.level = 3,
                                             !.lootRequired = NextLootRequired(3)],
                  StartTime)

\* On the third level, the first ten items collected, at item 11: an item
\* of mass 30.5 on a platform that can dissolve.
ThirdLevelScenes ==
    {Scene(StandingOn(Third.world.platforms[11]), Vec(0, 0, 0), Vec(0, 0, 0),
           Worn(Third.gameState, FULL, FULL, 10), Looted(Third.world, 10))}

InitHazards ==
    \E s \in FallScenes \cup ContactScenes \cup LootScenes \cup DissolveScenes
               \cup StrayScenes \cup SecondLevelScenes \cup PatrolScenes
               \cup RisingScenes \cup ThirdLevelScenes : InPlay(s)

NextHazards ==
    \/ KeyDown("Enter")
    \/ AnimateBegin(FrameMs, MaxHazardFrames)
    \/ FrameBody(Draws)

SpecHazards == InitHazards /\ [][NextHazards]_vars

\* C1: health and structuralIntegrity are within [0, 100] and every guard's
\* alertLevel is within [0, 100], in every state.
MetersWithinRange ==
    /\ gameState.health >= 0 /\ gameState.health <= 100 * Milli
    /\ gameState.structuralIntegrity >= 0
    /\ gameState.structuralIntegrity <= 100 * Milli
    /\ \A k \in 1..Len(world.aiGuards) :
          world.aiGuards[k].alertLevel >= 0 /\ world.aiGuards[k].alertLevel <= 100

\* A guard's contact took the last of the health and of the integrity while
\* its alert level was at the top.
MetersAtTheirEnds ==
    /\ gameState.health = 0
    /\ gameState.structuralIntegrity = 0
    /\ \E k \in 1..Len(world.aiGuards) : world.aiGuards[k].alertLevel = 100

Hidden(w) == {k \in 1..Len(w.lootItems) : ~w.lootItems[k].visible}

\* C2: within a level, levelComplete rises only in the checkLootCollection
\* call in which the loot count gets from below lootRequired to it, it rises
\* in that call, and it does not fall back; a hidden loot item stays hidden
\* and the loot count grows by exactly the number of items a step hides.
LevelCompletesOnce ==
    [][/\ (~gameState.levelComplete /\ gameState'.levelComplete
            => /\ pc = "checkLootCollection"
               /\ gameState.loot < gameState.lootRequired
               /\ gameState'.loot >= gameState.lootRequired)
       /\ (gameState.loot < gameState.lootRequired
               /\ gameState'.level = gameState.level
               /\ gameState'.loot >= gameState.lootRequired
            => gameState'.levelComplete)
       /\ (gameState.levelComplete /\ gameState'.level = gameState.level
            => gameState'.levelComplete)
       /\ (gameState'.level = gameState.level
            => /\ Hidden(world) \subseteq Hidden(world')
               /\ gameState'.loot - gameState.loot
                     = Cardinality(Hidden(world') \ Hidden(world)))]_vars

\* The last item was collected a frame ago and the player is still at it.
LevelCompletedAndStayed ==
    /\ gameState.levelComplete
    /\ gameState.loot = gameState.lootRequired
    /\ frames >= 2
    /\ pc = "movement"
    /\ \E k \in Hidden(world) :
          DistanceTo(camera.position, world.lootItems[k].position)
              < COLLECT_RADIUS * Milli

\* C10: a checkGroundCollision call that finds the player below the void
\* level sets health to max(0, health - 20), puts the player at the spawn
\* point (0, 5, 0) and sets the velocity to zero.
VoidFallRespawns ==
    [][pc = "checkGroundCollision" /\ camera.position.y < -50 * Micro
       => /\ gameState'.health = IF gameState.health > 20 * Milli
                                 THEN gameState.health - 20 * Milli ELSE 0
          /\ camera'.position = Vec(0, 5 * Micro, 0)
          /\ gameState'.velocity = Vec(0, 0, 0)]_vars

\* The fall branch has just run on a player with less than 20 health.
FellWithLittleHealth ==
    /\ pc = "checkZones"
    /\ cameraShake = Micro
    /\ camera.position = SPAWN
    /\ gameState.health = 0

\* Farther than the distance from every platform of the list.
FartherFromAll(position, platforms, distance) ==
    \A k \in 1..Len(platforms) : DistanceTo(position, platforms[k].position) > distance

\* C11: a checkGroundCollision call that finds the player farther than 50
\* from every platform of the level, in whatever direction, takes the fall
\* branch: 20 health off and the player back at the spawn point.
VoidFallFarFromPlatforms ==
    [][/\ pc = "checkGroundCollision"
       /\ FartherFromAll(camera.position, world.platforms, 50 * Micro)
       => /\ camera'.position = Vec(0, 5 * Micro, 0)
          /\ gameState'.health = Max(0, gameState.health - 20 * Milli)]_vars

\* C12: a keydown that finds levelComplete false changes nothing (between
\* frames, Enter is the only key pressed here); the level changes only in a
\* keydown that finds levelComplete true, which adds exactly 1 to it, clears
\* levelComplete and leaves the world generated for the new level with the
\* player reset, so that a second Enter finds levelComplete false.
EnterAdvancesCompletedLevel ==
    [][/\ (pc = "idle" /\ pc' = "idle" /\ ~gameState.levelComplete
            => UNCHANGED vars)
       /\ (gameState'.level # gameState.level
            => /\ pc = "idle" /\ pc' = "idle"
               /\ gameState.levelComplete)
       /\ (pc = "idle" /\ pc' = "idle" /\ gameState.levelComplete
            => /\ gameState'.level = gameState.level + 1
               /\ ~gameState'.levelComplete
               /\ gameState'.loot = 0
               /\ camera'.position = Vec(0, 5 * Micro, 0)
               /\ world' = GenerateWorld(now + gameState'.level * 1000,
                                         gameState'.lootRequired))]_vars

\* Enter took the game to level 2, and a frame of it has gone by.
EnteredLevelTwo ==
    /\ gameState.level = 2
    /\ ~gameState.levelComplete
    /\ pc = "idle"
    /\ frames >= 2
    /\ world.platforms # <<>>

\* C13: every level advance raises lootRequired by the same amount, the one
\* the advance from level 1 (lootRequired 10) to level 2 raises it by.
LootRequiredRisesEvenly ==
    [][gameState'.level = gameState.level + 1
       => gameState'.lootRequired - gameState.lootRequired
             = NextLootRequired(2) - InitialGameState.lootRequired]_vars

\* C14: the level in play has exactly lootRequired loot items (10 on level
\* 1), of which as many are collected as the loot count says (none when the
\* level was just generated), and its platform list is not empty.
LevelHoldsRequiredLoot ==
    /\ Len(world.lootItems) = gameState.lootRequired
    /\ gameState.level = 1 => Len(world.lootItems) = 10
    /\ Cardinality(Hidden(world)) = gameState.loot
    /\ world.platforms # <<>>

\* The third level has just been generated: 16 items, none collected.
ThirdLevelGenerated ==
    /\ gameState.level = 3
    /\ gameState.loot = 0
    /\ Len(world.lootItems) = 16
    /\ Hidden(world) = {}
    /\ Len(world.platforms) = PLATFORM_COUNT + 1

\* C19: a frame whose last statement finds health or structuralIntegrity at
\* 0 or below ends with health and structuralIntegrity at 100, the player at
\* (0, 5, 0), gameState.velocity zero and gravity (0, -1, 0), and with the
\* level, the loot count and the loot items as they were.
GameOverRespawns ==
    [][/\ pc = "checkGameOver"
       /\ gameState.health <= 0 \/ gameState.structuralIntegrity <= 0
       => /\ pc' = "idle"
          /\ gameState'.health = 100 * Milli
          /\ gameState'.structuralIntegrity = 100 * Milli
          /\ camera'.position = Vec(0, 5 * Micro, 0)
          /\ gameState'.velocity = Vec(0, 0, 0)
          /\ gameState'.gravity = Vec(0, -Unit, 0)
          /\ gameState'.level = gameState.level
          /\ gameState'.loot = gameState.loot
          /\ gameState'.lootRequired = gameState.lootRequired
          /\ world' = world]_vars

\* A heavy loot item took the last of the integrity and the frame ended in
\* the respawn, the loot collected so far kept.
RespawnedWithLoot ==
    /\ pc = "idle"
    /\ frames >= 1
    /\ cameraShake = 2 * Micro
    /\ camera.position = SPAWN
    /\ gameState.structuralIntegrity = FULL
    /\ gameState.health = FULL
    /\ gameState.loot > 0
    /\ gameState.level = 1

\* C20: the clear() of every generateLevel call left nothing in the eight
\* lists of the world in use before the new world was made, and the lists of
\* the world in play hold the entities of one generation: the platforms, the
\* gravity zones with their particle systems, the time zones and the guards
\* of one run of the generators, and lootRequired loot items.
WorldReleasedBeforeRebuild ==
    /\ log.released = 0
    /\ Len(world.platforms) = PLATFORM_COUNT + 1
    /\ Len(world.lootItems) = gameState.lootRequired
    /\ Len(world.gravityZones) = GRAVITY_ZONE_COUNT
    /\ Len(world.particles) = GRAVITY_ZONE_COUNT
    /\ Len(world.timeZones) = Len(timeFractureTypes)
    /\ Len(world.timeFractureZones) = Len(timeFractureTypes)
    /\ Len(world.aiGuards) = Len(guardTypes)

\* Enter has replaced the world of level 1 by the world of level 2.
SecondWorldInPlay ==
    /\ gameState.level = 2
    /\ gameState.lootRequired = 14
    /\ gameState.loot = 0
    /\ pc = "idle"
    /\ Population(world) >= 16 + 14 + 5 + 5 + 4 + 4 + 5 + WALL_COUNT

\* ------------------------------------------------------------------------
\* SpecChase: the player comes to rest behind a guard that has not noticed
\* anything yet (each of the five guards in turn; the echo guard also with a
\* history full of that position), having collected the loot up to the one
\* on the guard's platform, or falls past a guard into a time zone, and
\* MaxChaseFrames frames follow.
MaxChaseFrames == 20

\* The world in which echo guard k has recorded position for a full history.
Remembering(w, k, position) ==
    [w EXCEPT !.aiGuards[k].playerPositionHistory =
        [i \in 1..ECHO_GUARD_HISTORY_LENGTH |-> position]]

\* The number of the loot item on guard k's platform, or 0 if it has none
\* (src/game.js:241, 419).
LootAtGuard(k) ==
    IF GuardPlatformIndex(k - 1, Len(Started.world.platforms)) < Len(Started.world.lootItems)
    THEN GuardPlatformIndex(k - 1, Len(Started.world.platforms)) + 1
    ELSE 0

ChaseScene(k, w) ==
    Scene(Behind(k), Vec(0, 0, 0), Vec(0, 0, 0),
          Worn(Started.gameState, FULL, FULL, LootAtGuard(k)),
          Looted(w, LootAtGuard(k)))

\* Falling into the REWIND time zone, behind the guard next to it.
RewindScene ==
    Scene(Offset(Started.world.timeZones[3].position, 2500000, 3800000, 2500000),
          Vec(0, -Micro, 0), Vec(0, 0, 0), Started.gameState, Started.world)

ChaseScenes ==
    {ChaseScene(k, Started.world) : k \in 1..Len(guardTypes)}
    \cup {ChaseScene(k, Remembering(Started.world, k, Behind(k))) :
            k \in {j \in 1..Len(guardTypes) : guardTypes[j] = "echo"}}
    \cup {RewindScene}

InitChase == \E s \in ChaseScenes : InPlay(s)

NextChase ==
    \/ AnimateBegin(FrameMs, MaxChaseFrames)
    \/ FrameBody(Draws)

SpecChase == InitChase /\ [][NextChase]_vars

\* C9: a guard that has had the player within its detection radius and
\* vision cone in 17 updateAI calls in a row, or more, is at alert level 50
\* or above and makes the chase move, and its displacement in the call is
\* larger than the displacement its patrol gives it.
AlertedGuardChases ==
    \A k \in 1..Len(world.aiGuards) :
        log.streak[k] >= 17 =>
            /\ world.aiGuards[k].alertLevel >= 50
            /\ log.chasing[k]
            /\ log.moved[k] > log.patrol[k]

\* From alert level 0, the 17th call in a row has just raised a guard to 51.
SeenFor17Ticks ==
    \E k \in 1..Len(world.aiGuards) :
        /\ log.streak[k] = 17
        /\ frames = 17
        /\ world.aiGuards[k].alertLevel = 51
        /\ log.patrol[k] > 0

\* C15: whatever timeWarp is, the gravity and position integration of a
\* frame use the step 0.016 s (1600, in 1e-5 s): the velocity grows by gravity
\* * 0.5 * gravityMagnitude * 0.016 and the position by velocity * 0.016.
PhysicsStepIsFixed ==
    [][pc = "physics"
       => /\ gameState'.velocity
                = VAdd(gameState.velocity,
                       GravityForce(gameState.gravity, gameState.gravityMagnitude, 1600))
          /\ camera'.position
                = VAdd(camera.position, TimesDelta(gameState'.velocity, 1600))]_vars

\* C16: right after a checkZones call, gravity, gravityMagnitude and timeWarp
\* are what the call gives from the defaults at the player's position,
\* whatever they were before: outside every gravity zone and every sentinel
\* field, gravity is (0, -1, 0) and gravityMagnitude 1; 5 or more away from
\* every time zone, timeWarp is 1.
ZonesResolvedFromPosition ==
    pc = "checkLootCollection" =>
        /\ gameState.gravity
              = checkZones(InitialGameState, world, camera.position).gravity
        /\ gameState.timeWarp
              = checkZones(InitialGameState, world, camera.position).timeWarp
        /\ (/\ \A k \in 1..Len(world.gravityZones) :
                    ~InGravityZone(world.gravityZones[k], camera.position)
            /\ \A k \in 1..Len(world.aiGuards) :
                    ~FieldApplies(world.aiGuards[k], camera.position)
            => /\ gameState.gravity = Vec(0, -Unit, 0)
               /\ gameState.gravityMagnitude = Unit)
        /\ ((\A k \in 1..Len(world.timeZones) :
                 DistanceTo(camera.position, world.timeZones[k].position) >= 5 * Micro)
            => gameState.timeWarp = Pct)

\* The frame before turned gravity with Q, or was slowed by a time zone the
\* player has left since, and checkZones has put the defaults back.
DefaultsRestored ==
    /\ pc = "checkLootCollection"
    /\ gameState.gravity = DEFAULT_GRAVITY
    /\ gameState.timeWarp = Pct
    /\ \/ gameState.gravityRotation # 0 /\ log.rotatedAt = now - FrameMs
       \/ delta # FrameDelta(Pct)

\* ------------------------------------------------------------------------
\* SpecJump: the player standing on the main platform or on the platform
\* next to it, or in the air at the spawn point, pressing and releasing
\* Space (jump) and Q (rotate gravity) over MaxJumpFrames frames.
MaxJumpFrames == 3

JumpScenes ==
    {Scene(StandingOn(Started.world.platforms[k]), Vec(0, 0, 0), Vec(0, 0, 0),
           Started.gameState, Started.world) : k \in 1..2}
    \cup {Scene(SPAWN, Vec(0, 0, 0), Vec(0, 0, 0), Started.gameState, Started.world)}

InitJump == \E s \in JumpScenes : InPlay(s)

NextJump ==
    \/ \E code \in {"Space", "KeyQ"} : KeyDown(code)
    \/ \E code \in {"Space", "KeyQ"} : KeyUp(code)
    \/ AnimateBegin(FrameMs, MaxJumpFrames)
    \/ FrameBody(Draws)

SpecJump == InitJump /\ [][NextJump]_vars

\* The platforms of the list that catch a player at the position.
Catching(platforms, position, gravity) ==
    {k \in 1..Len(platforms) : Lands(platforms[k], position, gravity)}

\* C17: the velocity gets a jump impulse only in the jump statement of a frame
\* with the jump key down and canJump true, and the statement leaves canJump
\* false; canJump becomes true only in a checkGroundCollision call that finds
\* the player on a platform, and no other statement than these two sets it.
JumpOnlyFromGround ==
    [][/\ (pc = "jump" /\ gameState'.velocity # gameState.velocity
            => /\ moveState.jump
               /\ gameState.canJump
               /\ ~gameState'.canJump)
       /\ (~gameState.canJump /\ gameState'.canJump
            => /\ pc = "checkGroundCollision"
               /\ Catching(world.platforms, camera.position, gameState.gravity) # {})
       /\ (gameState'.canJump # gameState.canJump
            => pc \in {"checkGroundCollision", "jump"})]_vars

\* The frame after a jump from the main platform, Space still down: the jump
\* statement has run and the velocity carries the one impulse, less a frame
\* of gravity.
JumpedOnceKeyHeld ==
    /\ pc = "rotateGravity"
    /\ frames >= 2
    /\ moveState.jump
    /\ ~gameState.canJump
    /\ gameState.velocity.y > 9 * Micro
    /\ gameState.velocity.y < 10 * Micro

\* C18: the impulse the jump statement adds to the velocity is -10 times the
\* normalized gravity vector that the gravity integration of the same frame
\* used, whatever its orientation.
JumpAgainstActingGravity ==
    [][pc = "jump" /\ gameState'.velocity # gameState.velocity
       => VSub(gameState'.velocity, gameState.velocity)
             = VScale(UNormalize(log.pulled), -10 * 100, 1)]_vars

\* ------------------------------------------------------------------------
\* SpecRebuild: the player just spawned; frames follow one another 16 ms
\* apart or after a gap of just over the rebuild interval (a stalled or
\* hidden page), and the pointer lock is released and taken again between
\* frames, time going by meanwhile.  SpecRunning is the same game with the
\* lock kept and every frame one or two such gaps after the one before, in
\* which the statement a frame is at is executed and a frame that can begin
\* does begin.
MaxRebuildFrames == 5
MaxRebuildPause == 2

RebuildGap == REBUILD_INTERVAL + 1

RebuildScenes ==
    {Scene(SPAWN, Vec(0, 0, 0), Vec(0, 0, 0), Started.gameState, Started.world)}

InitRebuild == \E s \in RebuildScenes : InPlay(s)

NextRunning ==
    \/ \E dt \in {RebuildGap, 2 * RebuildGap} : AnimateBegin(dt, MaxRebuildFrames)
    \/ FrameBody(Draws)

NextRebuild ==
    \/ \E dt \in {FrameMs, RebuildGap} : AnimateBegin(dt, MaxRebuildFrames)
    \/ FrameBody(Draws)
    \/ Unlock
    \/ Lock
    \/ AnimatePaused(RebuildGap, StartTime + MaxRebuildPause * RebuildGap)

SpecRebuild == InitRebuild /\ [][NextRebuild]_vars

\* The statements of animate() that pc names.
Statements ==
    {"idle", "updateAI", "updateDynamicElements", "rotateLoot", "physics",
     "checkGroundCollision", "checkZones", "checkLootCollection", "movement",
     "jump", "rotateGravity", "applyCameraShake", "checkGameOver"}

\* The frame goes on: a step to another statement, possible whenever a step
\* of NextRunning is (inside a frame, or between frames while playing with
\* frames left); every step of NextRunning is one.
FrameGoesOn ==
    /\ pc # "idle" \/ (gameState.isPlaying /\ frames < MaxRebuildFrames)
    /\ pc' \in Statements \ {pc}

SpecRunning == InitRebuild /\ [][NextRunning]_vars /\ WF_pc(FrameGoesOn)

\* The temporary platforms in dynamicElements, and their spawn times.
Temporaries(w) ==
    {i \in 1..Len(w.dynamicElements) : w.dynamicElements[i].type = "temporary"}

SpawnTimes(w) == {w.dynamicElements[i].spawnTime : i \in Temporaries(w)}

\* The times at which the first frame may spawn a temporary platform.
FirstFrames == {StartTime + RebuildGap, StartTime + 2 * RebuildGap}

\* C21: within a level, a temporary platform leaves dynamicElements only in
\* an updateDynamicElements call that finds it older than 10000 ms; one
\* enters only in the updateAI call that spawns it, so a removed one does
\* not come back, and the list never holds one twice; and while frames keep
\* coming, the platform the first frame spawned is eventually gone.
TemporaryRemovedOnce ==
    /\ [][gameState'.level = gameState.level
           => /\ \A s \in SpawnTimes(world) \ SpawnTimes(world') :
                     pc = "updateDynamicElements" /\ now - s > 10000
              /\ \A s \in SpawnTimes(world') \ SpawnTimes(world) :
                     pc = "updateAI" /\ s = now
              /\ Cardinality(SpawnTimes(world')) = Cardinality(Temporaries(world'))]_vars
    /\ \A s \in FirstFrames :
          (s \in SpawnTimes(world)) ~> (s \notin SpawnTimes(world))

\* The platform that the first frame spawned has been removed and the one
\* spawned after it is still there.
FirstTemporaryGone ==
    /\ pc = "rotateLoot"
    /\ SpawnTimes(world) # {}
    /\ \A s \in SpawnTimes(world) : s \notin FirstFrames
    /\ \E s \in FirstFrames : now - s > 10000

\* C22: dynamicElements never holds more than 3 temporary platforms,
\* whatever the gaps between the frames and however play is paused and
\* resumed.
TemporariesBounded == Cardinality(Temporaries(world)) <= 3

\* The third platform has just been spawned, the first not yet removed.
ThreeTemporaries ==
    /\ pc = "updateDynamicElements"
    /\ Cardinality(Temporaries(world)) = 3

\* ------------------------------------------------------------------------
\* SpecRandom: a ProceduralWorld constructed with the clock value t as its
\* seed (src/game.js:730, 734), as the constructor stores it, and random()
\* called on it time after time; frames counts the calls and now keeps t.
\* The clock values are small enough for seed * 9301 to be an exact double.
MaxDraws == 6

SeedTimes ==
    {0, 1, 25, 131, 230886, RandomModulus - 1, RandomModulus,
     2 * RandomModulus - 1}
        \cup {StartTime + k : k \in 0..7}
        \cup {StartTime + l * 1000 + 1 : l \in 1..8}

InitRandom ==
    \E t \in SeedTimes :
        /\ gameState = InitialGameState
        /\ camera = [position |-> SPAWN, yaw |-> 0]
        /\ moveState = InitialMoveState
        /\ velocity = Vec(0, 0, 0)
        /\ world = EmptyWorld(t)
        /\ cameraShake = 0
        /\ controls = [isLocked |-> FALSE]
        /\ now = t
        /\ delta = 0
        /\ pc = "idle"
        /\ frames = 0
        /\ log = NewLog(0)
        /\ response = NoResponse

\* One call of world.random().
Draw ==
    /\ frames < MaxDraws
    /\ world' = [world EXCEPT !.seed = random(world.seed)]
    /\ frames' = frames + 1
    /\ UNCHANGED <<gameState, camera, moveState, velocity, cameraShake,
                   controls, now, delta, pc, log, response>>

NextRandom == Draw

SpecRandom == InitRandom /\ [][NextRandom]_vars

UndetectingGuardCools ==
    [][pc = "updateAI"
       => \A k \in 1..Len(world.aiGuards) :
            log'.streak[k] = 0
                => world'.aiGuards[k].alertLevel
                       = DecayAlert(world.aiGuards[k].alertLevel)]_vars

\* Where updateAI measures distanceToPlayer from (src/game.js:571): the
\* guard after the move of its type and its patrol move.
Measured(guard, playerPosition, timeWarp, t) ==
    PatrolStep(SpecialStep(guard, playerPosition, timeWarp, t), timeWarp).position

\* C25: an updateAI call that a guard both enters and leaves above the chase
\* threshold, and in which it is within the contact radius of the player,
\* takes 0.5 health and 0.3 structural integrity from the player, or more,
\* down to 0.
ChasingContactHurts ==
    [][pc = "updateAI"
       => \A k \in 1..Len(world.aiGuards) :
            (/\ world.aiGuards[k].alertLevel > CHASE_THRESHOLD
             /\ world'.aiGuards[k].alertLevel > CHASE_THRESHOLD
             /\ DistanceTo(Measured(world.aiGuards[k], camera.position,
                                    gameState.timeWarp, now),
                           camera.position) < CONTACT_RADIUS * Micro)
                => /\ gameState'.health <= DamageHealth(gameState.health, 500)
                   /\ gameState'.structuralIntegrity
                          <= DamageIntegrity(gameState.structuralIntegrity, 300)]_vars

\* The share of normal gravity the README gives a zone type, in percent.
ZoneShare(name) == IF name = "LOW" THEN 30 ELSE 200

\* C26: the gravity integration of a frame that finds the player inside a
\* LOW or HIGH gravity zone, under that zone's gravity, changes the velocity
\* by 30% or 200% of what it changes under default gravity in a frame of
\* the same length.
ZoneGravityScales ==
    [][pc = "physics"
       => \A k \in 1..Len(world.gravityZones) :
            (/\ world.gravityZones[k].name \in {"LOW", "HIGH"}
             /\ InGravityZone(world.gravityZones[k], camera.position)
             /\ gameState.gravity = world.gravityZones[k].gravityVector)
                => VSub(gameState'.velocity, gameState.velocity)
                     = VScale(GravityForce(DEFAULT_GRAVITY, Unit, delta),
                              ZoneShare(world.gravityZones[k].name), 100)]_vars

\* The horizontal component of field along the horizontal offset from the
\* player to the guard (offsets in milli-units).
TowardGuard(field, guard, playerPos) ==
    field.x * Div(guard.position.x - playerPos.x, 1000)
        + field.z * Div(guard.position.z - playerPos.z, 1000)

\* C27: the gravity field of a sentinel that checkZones blends into the
\* player's gravity (the player within 15 units of the sentinel) has a
\* horizontal component that points from the player toward the sentinel,
\* or none.
SentinelFieldPullsIn ==
    [][pc = "checkZones"
       => \A k \in 1..Len(world.aiGuards) :
            FieldApplies(world.aiGuards[k], camera.position)
                => \/ TowardGuard(world.aiGuards[k].gravityField,
                                  world.aiGuards[k], camera.position) > 0
                   \/ /\ world.aiGuards[k].gravityField.x = 0
                      /\ world.aiGuards[k].gravityField.z = 0]_vars

\* The items that are visible in before and hidden in after.
Collected(before, after) ==
    {k \in 1..Len(before) : before[k].visible /\ ~after[k].visible}

RECURSIVE HeavyDamage(_, _, _)
\* The destruction values of the items of mass above 20 among the collected
\* items k.., added up.
HeavyDamage(before, after, k) ==
    IF k > Len(before) THEN 0
    ELSE (IF k \in Collected(before, after) /\ before[k].mass > 20 * Milli
          THEN before[k].destructionValue ELSE 0)
         + HeavyDamage(before, after, k + 1)

\* C28: a checkLootCollection call lowers structuralIntegrity by the
\* destruction value of every item of mass above 20 it collects, down to 0,
\* and by nothing for an item of mass 20 or less.
HeavyLootDamagesStructure ==
    [][pc = "checkLootCollection"
       => gameState'.structuralIntegrity
            = Max(0, gameState.structuralIntegrity
                        - HeavyDamage(world.lootItems, world'.lootItems, 1))]_vars

\* C28 witness: the first frame has collected an item of mass above 20
\* whose destruction value is more than the integrity left, which is now 0.
HeavyItemCollected ==
    /\ pc = "movement"
    /\ frames = 1
    /\ gameState.structuralIntegrity = 0
    /\ \E k \in 1..Len(world.lootItems) :
          /\ ~world.lootItems[k].visible
          /\ \A j \in (k + 1)..Len(world.lootItems) : world.lootItems[j].visible
          /\ world.lootItems[k].mass > 20 * Milli
          /\ world.lootItems[k].destructionValue > 5 * Milli

\* ------------------------------------------------------------------------
\* SpecSlide: the player let go at the top of the FAST time zone, falling
\* through it frame after frame while the walls slide.
MaxSlideFrames == 60

SlideScenes ==
    {Scene(Offset(Started.world.timeZones[k].position, 0, 4999000, 0),
           Vec(0, 0, 0), Vec(0, 0, 0), Started.gameState, Started.world) :
        k \in {j \in 1..Len(timeFractureTypes) : timeFractureTypes[j].name = "FAST"}}

InitSlide == \E s \in SlideScenes : InPlay(s)

NextSlide ==
    \/ AnimateBegin(FrameMs, MaxSlideFrames)
    \/ FrameBody(Draws)

SpecSlide == InitSlide /\ [][NextSlide]_vars

\* The height generateImpossibleWalls gives wall i (src/game.js:213).
WallHeight(i) == (10 + (i - 1) * 2) * Micro

\* C29: every sliding wall is within slideRange of the height it was
\* generated at, give or take one step (slideSpeed times the largest
\* time-warp factor, 2), whatever the frames and time-warp values so far.
WallWithinSlideRange ==
    \A i \in 1..WALL_COUNT :
        Abs(world.dynamicElements[i].position.y - WallHeight(i))
            <= world.dynamicElements[i].slideRange
                 + 2 * world.dynamicElements[i].slideSpeed

\* The platforms generated to slide (src/game.js:165).
SlidingPlatforms == {k \in 1..Len(Started.world.platforms) :
                        Started.world.platforms[k].canSlide}

\* ------------------------------------------------------------------------
\* SpecDrift: the player standing at the spawn point, outside every time
\* zone (timeWarp 1 throughout), frame after frame.
MaxDriftFrames == 192

InitDrift == \E s \in RebuildScenes : InPlay(s)

NextDrift ==
    \/ AnimateBegin(FrameMs, MaxDriftFrames)
    \/ FrameBody(Draws)

SpecDrift == InitDrift /\ [][NextDrift]_vars

\* C30: at normal time-warp a platform generated to slide slides back and
\* forth, its displacement from its generated position bounded over any
\* number of ticks: it is never farther from that position than the range
\* the program gives the slide of its walls (slideRange, 5).
SlidingPlatformStaysNear ==
    \A k \in SlidingPlatforms :
        DistanceTo(world.platforms[k].position, Started.world.platforms[k].position)
            <= Started.world.dynamicElements[1].slideRange

\* ------------------------------------------------------------------------
\* The static file server, server.js (src/unnamed/part_001:340-446).  A
\* string is the sequence of its characters.

\* str.split(c)[0]: the part of str before the first c.
RECURSIVE BeforeFirst(_, _)
BeforeFirst(str, c) ==
    IF str = <<>> \/ Head(str) = c THEN <<>>
    ELSE <<Head(str)>> \o BeforeFirst(Tail(str), c)

\* str.split("/"): the segments of str between the slashes, the empty ones
\* included.
RECURSIVE SplitPath(_)
SplitPath(str) ==
    LET first == BeforeFirst(str, "/")
    IN  IF Len(first) = Len(str) THEN <<first>>
        ELSE <<first>> \o SplitPath(SubSeq(str, Len(first) + 2, Len(str)))

\* segments.join("/")
RECURSIVE JoinPath(_)
JoinPath(segments) ==
    IF segments = <<>> THEN <<>>
    ELSE IF Len(segments) = 1 THEN segments[1]
    ELSE segments[1] \o <<"/">> \o JoinPath(Tail(segments))

DotDot == <<".", ".">>

\* One segment of normalizeString (node's lib/path.js): "" and "." are
\* dropped, ".." takes back the segment before it, or stays when there is
\* none to take back and the path may climb above its root.
NormalizeStep(kept, segment, allowAboveRoot) ==
    IF segment = <<>> \/ segment = <<".">> THEN kept
    ELSE IF segment = DotDot
    THEN IF kept # <<>> /\ kept[Len(kept)] # DotDot
         THEN SubSeq(kept, 1, Len(kept) - 1)
         ELSE IF allowAboveRoot THEN Append(kept, segment) ELSE kept
    ELSE Append(kept, segment)

RECURSIVE normalizeString(_, _, _, _)
normalizeString(kept, segments, allowAboveRoot, k) ==
    IF k > Len(segments) THEN kept
    ELSE CHOOSE r \in {normalizeString(v, segments, allowAboveRoot, k + 1) :
                          v \in {NormalizeStep(kept, segments[k], allowAboveRoot)}} : TRUE

\* path.normalize (posix).
normalize(path) ==
    IF path = <<>> THEN <<".">>
    ELSE LET isAbsolute == Head(path) = "/"
             trailingSeparator == path[Len(path)] = "/"
             inner == JoinPath(normalizeString(<<>>, SplitPath(path), ~isAbsolute, 1))
         IN  IF inner = <<>>
             THEN IF isAbsolute THEN <<"/">>
                  ELSE IF trailingSeparator THEN <<".", "/">> ELSE <<".">>
             ELSE (IF isAbsolute THEN <<"/">> ELSE <<>>)
                  \o inner \o (IF trailingSeparator THEN <<"/">> ELSE <<>>)

\* path.resolve(from, to) for an absolute from: to itself when absolute, else
\* from/to, normalized, without a trailing slash.
resolve(from, to) ==
    LET joined == IF to # <<>> /\ Head(to) = "/" THEN to ELSE from \o <<"/">> \o to
        inner == JoinPath(normalizeString(<<>>, SplitPath(joined), FALSE, 1))
    IN  <<"/">> \o inner

\* String.prototype.startsWith
startsWith(str, prefix) ==
    Len(str) >= Len(prefix) /\ SubSeq(str, 1, Len(prefix)) = prefix

\* The file path of a request (src/unnamed/part_001:380-393).
FilePath(url) ==
    LET path == BeforeFirst(BeforeFirst(normalize(url), "?"), "#")
        file == IF path = <<"/">> \/ path = <<".">>
                THEN <<"/", "i", "n", "d", "e", "x", ".", "h", "t", "m", "l">>
                ELSE path
    IN  IF file # <<>> /\ Head(file) = "/" THEN Tail(file) ELSE file

\* !resolvedPath.startsWith(__dirname) (src/unnamed/part_001:397).
Forbidden(resolvedPath, dirname) == ~startsWith(resolvedPath, dirname)

\* What the request handler does with url (src/unnamed/part_001:374-440):
\* 403 and nothing read, or readFile on the resolved path, found being its
\* outcome; a file not found is answered with index.html.
Handle(url, dirname, found) ==
    LET resolvedPath == resolve(dirname, FilePath(url))
    IN  IF Forbidden(resolvedPath, dirname)
        THEN [url |-> url, status |-> 403, read |-> <<>>]
        ELSE [url |-> url, status |-> IF found = "error" THEN 500 ELSE 200,
              read |-> resolvedPath]

\* SpecServer: the server installed in /s/d, next to a directory /s/d2,
\* answering requests one after the other.  A request target is in origin
\* form (/...) or in absolute form (http://h/...), of up to MaxUrlSegments
\* segments; readFile finds the file, or does not, or fails.
MaxUrlSegments == 4

Dirname == <<"/", "s", "/", "d">>

UrlSegments ==
    {<<>>, <<".">>, DotDot, <<".", ".", "?">>, <<"d">>, <<"d", "2">>, <<"f">>}

UrlPrefixes == {<<"/">>, <<"h", "t", "t", "p", ":", "/", "/", "h", "/">>}

Urls ==
    {prefix \o JoinPath(segments) :
        prefix \in UrlPrefixes,
        segments \in UNION {[1..n -> UrlSegments] : n \in 0..MaxUrlSegments}}

InitServer == Loaded(StartTime)

\* A request arrives at the waiting server and is answered.
Request ==
    /\ response = NoResponse
    /\ \E url \in Urls, found \in {"file", "ENOENT", "error"} :
          response' = Handle(url, Dirname, found)
    /\ UNCHANGED <<gameState, camera, moveState, velocity, world, cameraShake,
                   controls, now, delta, pc, frames, log>>

\* The response sent, the server waits for the next request.
Listen ==
    /\ response # NoResponse
    /\ response' = NoResponse
    /\ UNCHANGED <<gameState, camera, moveState, velocity, world, cameraShake,
                   controls, now, delta, pc, frames, log>>

NextServer == Request \/ Listen

SpecServer == InitServer /\ [][NextServer]_vars

\* The path is the directory or a path below it.
Inside(path, dirname) ==
    path = dirname \/ startsWith(path, dirname \o <<"/">>)

\* C31: whatever the request, the server hands readFile only paths inside
\* its own directory, and a request whose path resolves outside it is
\* answered 403 with nothing read.
ServesOnlyOwnDirectory ==
    response.status # 0
        => /\ response.read # <<>> => Inside(response.read, Dirname)
           /\ ~Inside(resolve(Dirname, FilePath(response.url)), Dirname)
                 => response.status = 403 /\ response.read = <<>>

\* Guard k's patrol move of this updateAI call ends within 0.5 of the point
\* the guard is heading for.
Reaches(k) ==
    DistanceTo(Measured(world.aiGuards[k], camera.position, gameState.timeWarp, now),
               PatrolTarget(world.aiGuards[k])) < Micro \div 2

\* C32: every guard has 4 patrol points and a patrolIndex in 0..3, and while
\* the level lasts the index changes only in an updateAI call whose patrol
\* move ends within 0.5 of the point the guard is heading for, and then to
\* (patrolIndex + 1) mod 4.
PatrolIndexCycles ==
    /\ [](\A k \in 1..Len(world.aiGuards) :
            /\ Len(world.aiGuards[k].patrolPoints) = 4
            /\ world.aiGuards[k].patrolIndex \in 0..3)
    /\ [][gameState'.level = gameState.level /\ Len(world.aiGuards) > 0
            => \A k \in 1..Len(world.aiGuards) :
                 world'.aiGuards[k].patrolIndex
                    = IF pc = "updateAI" /\ Reaches(k)
                      THEN (world.aiGuards[k].patrolIndex + 1) % 4
                      ELSE world.aiGuards[k].patrolIndex]_vars

\* C32 witness: a guard has reached its last patrol point and heads for its
\* first again, while another has not reached it yet.
PatrolRoundFinished ==
    /\ \E k \in 1..Len(world.aiGuards) :
          /\ world.aiGuards[k].patrolIndex = 0
          /\ DistanceTo(world.aiGuards[k].position,
                        world.aiGuards[k].patrolPoints[4]) < Micro
    /\ \E k \in 1..Len(world.aiGuards) : world.aiGuards[k].patrolIndex = 3

\* C33: under normal gravity, checkGroundCollision leaves the vertical
\* velocity of a player who is moving upward (velocity.y > 0) as it is, a
\* player inside the contact band of a platform included.
RisingKeepsVelocity ==
    [][(/\ pc = "checkGroundCollision"
        /\ gameState.gravity = DEFAULT_GRAVITY
        /\ gameState.velocity.y > 0
        /\ ~FellIntoVoid(camera.position))
          => gameState'.velocity.y = gameState.velocity.y]_vars

\* C34: between frames (the state a frame hands to the renderer, and the
\* state the game starts in) health and structuralIntegrity are both above
\* 0.
AliveAtFrameEnd ==
    pc = "idle" => gameState.health > 0 /\ gameState.structuralIntegrity > 0

\* C34 witness: a frame in which a chasing guard took the last of the health
\* has ended with the respawn values.
RespawnedFromContact ==
    /\ pc = "idle"
    /\ frames = 1
    /\ cameraShake = 2 * Micro
    /\ camera.position = SPAWN
    /\ gameState.health = FULL
    /\ gameState.structuralIntegrity = FULL
    /\ gameState.loot = 0
    /\ \E k \in 1..Len(world.aiGuards) :
          world.aiGuards[k].alertLevel > CHASE_THRESHOLD

\* C35: gameState.loot is the number of loot items of the world that are
\* not visible, it never exceeds lootRequired, and levelComplete is true
\* exactly when loot >= lootRequired; the respawn at the end of a frame
\* changes neither the count, the required count nor the flag, nor the
\* loot items.
LootCountMatches ==
    /\ [](/\ gameState.loot = Cardinality(Hidden(world))
          /\ gameState.loot <= gameState.lootRequired
          /\ gameState.levelComplete <=> gameState.loot >= gameState.lootRequired)
    /\ [][(pc = "checkGameOver" /\ GameOver(gameState))
            => /\ gameState'.loot = gameState.loot
               /\ gameState'.lootRequired = gameState.lootRequired
               /\ gameState'.levelComplete = gameState.levelComplete
               /\ world'.lootItems = world.lootItems]_vars

\* C35 witness: the last item of the second level has been collected, in a
\* frame that has ended.
SecondLevelAllHidden ==
    /\ pc = "idle"
    /\ frames >= 1
    /\ gameState.level = 2
    /\ gameState.levelComplete
    /\ gameState.loot = gameState.lootRequired
    /\ Cardinality(Hidden(world)) = 14

\* C36: a frame animated while isPlaying is false changes no field of
\* gameState, no guard, no dynamic element and not the player's position;
\* taking the pointer lock again when the world has platforms leaves the
\* world, the player and every field of gameState but isPlaying as they
\* are; and whenever isPlaying is true the world has been generated.
PausedFrameChangesNothing ==
    /\ [][(~gameState.isPlaying /\ now' # now)
            => /\ gameState' = gameState
               /\ world'.aiGuards = world.aiGuards
               /\ world'.dynamicElements = world.dynamicElements
               /\ camera'.position = camera.position]_vars
    /\ [][(~controls.isLocked /\ controls'.isLocked /\ Len(world.platforms) > 0)
            => /\ world' = world
               /\ camera' = camera
               /\ gameState' = [gameState EXCEPT !.isPlaying = TRUE]]_vars
    /\ [](gameState.isPlaying => Len(world.platforms) > 0)

\* C36 witness: the lock was released before the first frame, a frame came
\* by during the pause, and the lock has been taken again.
RelockedAfterPause ==
    /\ controls.isLocked
    /\ gameState.isPlaying
    /\ frames = 0
    /\ now = StartTime + RebuildGap
    /\ world = Started.world

\* ------------------------------------------------------------------------
\* SpecRotate: the player just spawned, inside a gravity zone, or about to
\* fall below the void level with little health left, gravity having been
\* rotated by some frames of Q earlier on in the last case; above a
\* platform inside the REVERSE or a LOW zone; or standing on the main
\* platform after 20 frames of Q.  Q and E are pressed and released between
\* the frames that follow.
MaxRotateFrames == 3

\* gameState after frames frames spent holding Q: the angle they added up.
Rotated(gs, n) == [gs EXCEPT !.gravityRotation = n * GRAVITY_ROTATION_SPEED]

RotateScenes ==
    {Scene(SPAWN, Vec(0, 0, 0), Vec(0, 0, 0), Started.gameState, Started.world),
     Scene(Started.world.gravityZones[1].position, Vec(0, 0, 0), Vec(0, 0, 0),
           Started.gameState, Started.world),
     Scene(Vec(0, VOID_LEVEL * Micro + 5000, 11 * Micro), Vec(0, -7200000, 0),
           Vec(0, 0, 0), Rotated(Worn(Started.gameState, 10 * Milli, FULL, 0), 5),
           Started.world),
     Scene(Vec(8400000, 6500000, 19500000), Vec(0, 0, 0), Vec(0, 0, 0),
           Started.gameState, Started.world),
     Scene(Vec(-15700000, 9 * Micro, 16400000), Vec(0, 0, 0), Vec(0, 0, 0),
           Started.gameState, Started.world),
     Scene(StandingOn(Started.world.platforms[1]), Vec(0, 0, 0), Vec(0, 0, 0),
           Rotated(Started.gameState, 20), Started.world)}

InitRotate == \E s \in RotateScenes : InPlay(s)

NextRotate ==
    \/ \E code \in {"KeyQ", "KeyE"} : KeyDown(code)
    \/ \E code \in {"KeyQ", "KeyE"} : KeyUp(code)
    \/ AnimateBegin(FrameMs, MaxRotateFrames)
    \/ FrameBody(Draws)

SpecRotate == InitRotate /\ [][NextRotate]_vars

\* Neither rotate key is held.
NoRotateKey == ~moveState.rotateGravityLeft /\ ~moveState.rotateGravityRight

\* C37 as stated: in a frame in which neither rotate key is held, checkZones
\* sets the gravity vector to a value that does not depend on
\* gravityRotation, no later statement of the frame changes it, and no
\* statement of the frame changes gravityRotation.
RotationDoesNotPersist ==
    [][(pc # "idle" /\ NoRotateKey)
        => /\ gameState'.gravityRotation = gameState.gravityRotation
           /\ pc = "checkZones"
                 => gameState'.gravity
                      = checkZones(Rotated(gameState, 0), world, camera.position).gravity
           /\ pc \in {"checkLootCollection", "movement", "jump", "rotateGravity",
                       "applyCameraShake", "checkGameOver"}
                 => gameState'.gravity = gameState.gravity]_vars

\* C37, amended: the same for every statement of such a frame but a
\* game-over respawn at its end (which sets gravity to (0, -1, 0) and
\* gravityRotation to 0).
RotationDoesNotPersistBarRespawn ==
    [][(pc # "idle" /\ NoRotateKey /\ ~(pc = "checkGameOver" /\ GameOver(gameState)))
        => /\ gameState'.gravityRotation = gameState.gravityRotation
           /\ pc = "checkZones"
                 => gameState'.gravity
                      = checkZones(Rotated(gameState, 0), world, camera.position).gravity
           /\ pc \in {"checkLootCollection", "movement", "jump", "rotateGravity",
                       "applyCameraShake", "checkGameOver"}
                 => gameState'.gravity = gameState.gravity]_vars

\* C37 witness: inside a gravity zone, a frame with Q held rotated gravity,
\* and a later frame with no rotate key held has ended with the gravity of
\* the zone and the angle kept.
RotationLeftBehind ==
    /\ pc = "idle"
    /\ NoRotateKey
    /\ log.rotatedAt >= 0
    /\ log.rotatedAt < now
    /\ gameState.gravityRotation = GRAVITY_ROTATION_SPEED
    /\ gameState.gravity # DEFAULT_GRAVITY
    /\ gameState.gravity # RotatedGravity(gameState.gravityRotation)
    /\ gameState.gravity = checkZones(gameState, world, camera.position).gravity

\* The player is over platform k, no lower than its top face and no more
\* than 2 above it.
InContactBand(k) ==
    /\ HorizontalDist(camera.position, world.platforms[k]) < MaxRadius(world.platforms[k])
    /\ camera.position.y <= PlatformTop(world.platforms[k]) + 2 * Micro
    /\ camera.position.y >= PlatformTop(world.platforms[k])

Breakable(w, position) ==
    {j \in 1..Len(w.platforms) :
        /\ DistanceTo(w.platforms[j].position, position) < 10 * Micro
        /\ w.platforms[j].structural
        /\ w.platforms[j].canDissolve}

SpawnedAt(w, t) ==
    {i \in Temporaries(w) : w.dynamicElements[i].spawnTime = t}

\* C40: an updateDynamicElements call visits every element of
\* dynamicElements that it does not remove exactly once: every wall has
\* been slid once, and every temporary platform still in the list has the
\* opacity of its age at the time of the call, also when the call removed
\* an expired temporary platform.
EveryElementVisitedOnce ==
    [][pc = "updateDynamicElements"
        => /\ \A i \in 1..Len(world.dynamicElements) :
                 world.dynamicElements[i].type = "wall"
                    => /\ i <= Len(world'.dynamicElements)
                       /\ world'.dynamicElements[i]
                            = IF world.dynamicElements[i].canSlide
                              THEN SlideWall(world.dynamicElements[i], gameState.timeWarp)
                              ELSE world.dynamicElements[i]
           /\ \A i \in Temporaries(world) :
                 ~Expired(world.dynamicElements[i], now)
                    => \E j \in SpawnedAt(world', world.dynamicElements[i].spawnTime) :
                          world'.dynamicElements[j] = Fade(world.dynamicElements[i], now)]_vars


=============================================================================
